---------------------------- MODULE Spec2Model ----------------------------
(***************************************************************************)
(* LSLuaState (loom/script/runtime/lsLuaState.cpp): the VM state wrapper   *)
(* of the Loom script runtime.  The specifications share the variables:    *)
(*   Spec       the open()/close()/load life cycle of the VM instances and *)
(*              the process registry toLuaState;                           *)
(*   SpecLoad   cacheAssemblyTypes followed by finalizeAssemblyLoad on one *)
(*              assembly's type list, stage by stage;                      *)
(*   SpecCodec  the executable container decoder                           *)
(*              openExecutableAssemblyBinary and its callers;              *)
(*   SpecEntry  the loaders loadTypeAssembly and loadAssemblyJSON on a     *)
(*              sequence of assemblies;                                    *)
(*   SpecTrace  _getCurrentStack, traceback and triggerRuntimeError;       *)
(*   SpecFault  the same with frames entered and left between a capture    *)
(*              and the report;                                            *)
(*   SpecPath   getPathFromName;                                           *)
(*   SpecMark   one markImportedMissing call, frame by frame;              *)
(*   SpecAlloc  the embedded VMs allocating through lsLuaAlloc;            *)
(*   SpecThreads two threads opening and closing instances, every access   *)
(*              to toLuaState a step of its own.                           *)
(* Script classes of the SDK are modelled beside it:                       *)
(*   SpecText   the text setter of VectorTextEditor (feathers.text);       *)
(*   SpecEditor its focus, IME and keyboard event handlers;                *)
(*   SpecJson   JSON.stringify (system.JSON) on a heap of objects.         *)
(***************************************************************************)
EXTENDS Integers, Sequences, FiniteSets, TLC

VARIABLES
    \* ---- process and VM instances
    proc,           \* "running", or how the process ended: "assert", "fatal"
    L,              \* instance -> embedded VM handle, NULL when not open
    toLuaState,     \* the process registry: set of <<handle, instance>>
    lastState,      \* fast path pair (handle half)
    lastLSState,    \* fast path pair (instance half)
    assemblies,     \* instance -> sequence of owned assemblies
    nextAssembly,   \* the identity the next loaded assembly gets
    deleteCount,    \* assembly -> number of lmDelete calls on it
    closeCount,     \* handle -> number of lua_close calls on it
    lastCall,       \* the call made by the last step
    nCalls,         \* number of calls made so far
    everClosed,     \* instances on which a close() has completed
    \* ---- one assembly going through cacheAssemblyTypes / finalizeAssemblyLoad
    pc,             \* position in the load pipeline
    asmDef,         \* the parsed assembly: typeID, baseType, imports, native flags
    nativeTypes,    \* the native binding table: type -> "none"|"managed"|"unmanaged"
    types,          \* the utArray<Type*> handed through the pipeline
    missing,        \* the types whose missing flag is set
    missing0,       \* the types flagged missing when the load started
    ordinalTypes,   \* assembly->ordinalTypes, <<>> while NULL; index i+1 is slot i
    moduleTypes,    \* the types registered in their module
    deletedTypes,   \* the types released with lmDelete
    cTypeName,      \* the types stamped with their binding's host type name
    trace,          \* the calls made on the types, in order
    wellKnown,      \* the instance's fast-access references: name -> type object
    typeCache,      \* the instance's typeCache: set of <<full name, type object>>
    compiling,      \* isCompiling()
    \* ---- executable container decoding
    buffer,         \* the caller's byte buffer
    decoded,        \* what the decoder handed back
    \* ---- traceback capture and the runtime error report
    callStack,      \* the VM's active frames, level 0 (innermost) first
    tracestack,     \* _tracestack, in push order
    tracemessage,   \* _tracemessage, "" when its first byte is 0
    errlog,         \* the lines logged, in order
    \* ---- path resolution of an executable assembly
    assemblyName,   \* the name handed to getPathFromName, a sequence of characters
    absPath,        \* whether an absolute path was requested
    filePath,       \* the path returned, <<"?">> while none has been asked for
    \* ---- one markImportedMissing call, frame by frame
    markStack,      \* the active calls, outermost first: argument and loop index
    markCalls,      \* number of markImportedMissing calls entered
    markArg,        \* the type the outermost call was made for
    \* ---- the allocator of the embedded VMs
    platform64,     \* LOOM_PLATFORM_64BIT of the build
    allocatedBytes, \* LSLuaState::allocatedBytes, a 32-bit size_t as <<high, low>>
    blocks,         \* instance -> block -> size of the VM's live block, 0 when none
    \* ---- open() and close() called from one thread for each instance
    tpc,            \* instance -> position of its thread
    treg,           \* instance -> the registry contents its thread has read
    \* ---- a VectorTextEditor (feathers.text, CreatorFactory.ls)
    hasIMEFocus,    \* _hasIMEFocus
    imeAttached,    \* whether imeDelegate is attached with the IME
    caretChild,     \* whether _caretQuad is a child of the editor
    currentEditor,  \* the static _currentEditor: "null" or "this"
    isEditable,     \* _isEditable
    text,           \* the stored text, a sequence of characters
    restrict,       \* _restrict, a sequence of characters
    maxChars,       \* _maxChars
    textArg,        \* the string handed to the last call of the text setter
    editorLog,      \* attach/detach calls and focus events, in order
    \* ---- JSON.stringify on a heap of objects
    heap,           \* object -> its type name and its elements or field values
    jsonArg,        \* the object handed to the last stringify call
    jsonOut         \* what that call returned and what it did on the way

lifeVars  == <<proc, L, toLuaState, lastState, lastLSState, assemblies,
               nextAssembly, deleteCount, closeCount, lastCall, nCalls, everClosed>>
loadVars  == <<pc, asmDef, nativeTypes, types, missing, missing0, ordinalTypes,
               moduleTypes, deletedTypes, cTypeName, trace, wellKnown, typeCache,
               compiling>>
codecVars == <<buffer, decoded>>
traceVars == <<callStack, tracestack, tracemessage, errlog>>
pathVars  == <<assemblyName, absPath, filePath>>
markVars  == <<markStack, markCalls, markArg>>
allocVars == <<platform64, allocatedBytes, blocks>>
threadVars == <<tpc, treg>>
editorVars == <<hasIMEFocus, imeAttached, caretChild, currentEditor, isEditable,
                text, restrict, maxChars, textArg, editorLog>>
jsonVars  == <<heap, jsonArg, jsonOut>>
scriptVars == <<editorVars, jsonVars>>
vars      == <<lifeVars, loadVars, codecVars, traceVars, pathVars, markVars,
               allocVars, threadVars, scriptVars>>

NULL == 0

-----------------------------------------------------------------------------
(* Bounds *)

\* number of types in the assembly being loaded
NumTypes == 3
\* number of base-type and import edges between them
MaxEdges == 2

\* number of LSLuaState instances of the process
NumInstances == 2
\* number of open(), close(), load and lookup calls in a run
MaxCalls == 5

\* length of the byte buffers put into a container
MaxLen == 4

Type == 1..NumTypes
Instance == 1..NumInstances
\* the addresses lua_newstate can hand out
Handle == 1..NumInstances
\* the identities of the assemblies loaded in a run
Assembly == 1..MaxCalls

-----------------------------------------------------------------------------
(* Sequence helpers *)

Range(s) == {s[i] : i \in DOMAIN s}

RECURSIVE SeqSum(_)
SeqSum(s) == IF s = <<>> THEN 0 ELSE Head(s) + SeqSum(Tail(s))

-----------------------------------------------------------------------------
(* The assembly under load: the Type fields the pipeline reads *)

getTypeID(def, t)            == def.typeID[t]
getBaseType(def, t)          == def.baseType[t]
getImports(def, t)           == def.imports[t]
isNativeOrStaticNative(def, t) == def.native[t]
isNativeManaged(def, t)      == def.managed[t]
getFullName(def, t)          == def.name[t]

\* NativeInterface::getNativeType: the registered binding, NULL when absent
getNativeType(table, t) == IF table[t] = "none" THEN NULL ELSE t
\* NativeTypeBase::isManaged of a registered binding
ntbIsManaged(table, t)  == table[t] = "managed"

\* the base-type chain of t, t itself included (the while (search) walk)
RECURSIVE BaseChain(_, _)
BaseChain(def, t) ==
    IF t = NULL THEN {} ELSE {t} \cup BaseChain(def, getBaseType(def, t))

-----------------------------------------------------------------------------
(* cacheAssemblyTypes: the ordinalTypes array *)

\* the store indexed by list position instead of ordinal ID
StoreOrdinalByIndex(ord, def, tys, j) == [ord EXCEPT ![j + 1] = tys[j]]

\* the loop body's store, ordinalTypes->ptr()[type->getTypeID()] = type
StoreOrdinal(ord, def, tys, j) == [ord EXCEPT ![getTypeID(def, tys[j]) + 1] = tys[j]]

\* the fully-qualified names cacheAssemblyTypes keeps a fast-access
\* reference for
WellKnownName == {"system.Object", "system.Null", "system.Boolean", "system.Number",
                  "system.String", "system.Function", "system.Vector",
                  "system.reflection.Type"}

\* a Type object: the assembly it belongs to and its place in that assembly
TypeObject(a, t) == <<a, t>>
\* a Type pointer that is NULL
NoType == TypeObject(NULL, NULL)

\* the strcmp chain on the full name
setWellKnown(wk, name, ref) ==
    IF name \in WellKnownName THEN [wk EXCEPT ![name] = ref] ELSE wk

\* if (!typeCache.get(fullName)) typeCache.insert(fullName, type)
typeCacheInsert(tc, name, ref) ==
    IF \E e \in tc : e[1] = name THEN tc ELSE tc \cup {<<name, ref>>}

\* the final lmAsserts with the one on vectorType left out
wellKnownFoundNoVector(wk) ==
    \A n \in {"system.Null", "system.Boolean", "system.Number", "system.String",
              "system.Function", "system.reflection.Type"} : wk[n] # NoType

\* the seven lmAsserts that close cacheAssemblyTypes
wellKnownFound(wk) ==
    \A n \in {"system.Null", "system.Boolean", "system.Number", "system.String",
              "system.Function", "system.reflection.Type", "system.Vector"} :
       wk[n] # NoType

\* the loop over the type list of assembly a; the range lmAssert stops it
RECURSIVE cacheLoop(_, _, _, _, _)
cacheLoop(st, def, tys, a, j) ==
    IF j > Len(tys) THEN st
    ELSE IF ~(getTypeID(def, tys[j]) > 0 /\ getTypeID(def, tys[j]) <= Len(tys))
         THEN [st EXCEPT !.ok = FALSE]
         ELSE cacheLoop(
                [ok        |-> TRUE,
                 ord       |-> StoreOrdinal(st.ord, def, tys, j),
                 wellKnown |-> setWellKnown(st.wellKnown, getFullName(def, tys[j]),
                                            TypeObject(a, tys[j])),
                 typeCache |-> typeCacheInsert(st.typeCache, getFullName(def, tys[j]),
                                               TypeObject(a, tys[j]))],
                def, tys, a, j + 1)

\* the lmAssert on ordinalTypes, ordinalTypes->resize(types.size() + 1), the
\* loop, then the lmAsserts on the fast-access references
cacheAssemblyTypes(def, tys, a, ord, wk, tc) ==
    IF ord # <<>>
    THEN [ok |-> FALSE, ord |-> ord, wellKnown |-> wk, typeCache |-> tc]
    ELSE LET r == cacheLoop([ok |-> TRUE, ord |-> [i \in 1..(Len(tys) + 1) |-> NULL],
                             wellKnown |-> wk, typeCache |-> tc],
                            def, tys, a, 1)
         IN IF ~r.ok THEN r ELSE [r EXCEPT !.ok = wellKnownFound(r.wellKnown)]

CacheAssemblyTypes ==
    /\ pc = "cache"
    /\ LET r == cacheAssemblyTypes(asmDef, types, nextAssembly, ordinalTypes,
                                   wellKnown, typeCache) IN
       /\ ordinalTypes' = r.ord
       /\ wellKnown' = r.wellKnown
       /\ typeCache' = r.typeCache
       /\ pc' = IF r.ok THEN "resolve" ELSE "fatal"
    /\ UNCHANGED <<asmDef, nativeTypes, types, missing, missing0, moduleTypes,
                   deletedTypes, cTypeName, trace, compiling>>
    /\ UNCHANGED <<lifeVars, codecVars, traceVars, pathVars, markVars, allocVars, threadVars, scriptVars>>

-----------------------------------------------------------------------------
(* finalizeAssemblyLoad, stage 1: native resolution *)

\* NativeInterface::resolveScriptType: whether the type's binding resolves;
\* an unresolved binding is a fatal error
resolveScriptType(table, t) == getNativeType(table, t) # NULL

\* resolveScriptType on every native type of the list, in list order
RECURSIVE resolveLoop(_, _, _, _, _)
resolveLoop(def, table, tys, j, tr) ==
    IF j > Len(tys) THEN [ok |-> TRUE, trace |-> tr]
    ELSE IF ~isNativeOrStaticNative(def, tys[j])
         THEN resolveLoop(def, table, tys, j + 1, tr)
         ELSE IF ~resolveScriptType(table, tys[j])
              THEN [ok |-> FALSE, trace |-> tr]
              ELSE resolveLoop(def, table, tys, j + 1,
                               Append(tr, <<"resolveScriptType", tys[j]>>))

ResolveNative ==
    /\ pc = "resolve"
    /\ LET r == resolveLoop(asmDef, nativeTypes, types, 1, trace) IN
       /\ trace' = r.trace
       /\ pc' = IF r.ok THEN "propagate" ELSE "fatal"
    /\ UNCHANGED <<asmDef, nativeTypes, types, missing, missing0, ordinalTypes,
                   moduleTypes, deletedTypes, cTypeName, wellKnown,
                   typeCache, compiling>>
    /\ UNCHANGED <<lifeVars, codecVars, traceVars, pathVars, markVars, allocVars, threadVars, scriptVars>>

-----------------------------------------------------------------------------
(* finalizeAssemblyLoad, stage 2: missing-type propagation *)

\* markImportedMissing(types, m): every type of the list that is not yet
\* missing and imports m is flagged and recursed on.  miss is the set of
\* flagged types, threaded through the loop from index i on.
RECURSIVE markFrom(_, _, _, _, _)
markFrom(def, tys, miss, m, i) ==
    IF i > Len(tys) THEN miss
    ELSE IF tys[i] \in miss THEN markFrom(def, tys, miss, m, i + 1)
    ELSE IF m \in getImports(def, tys[i])
         THEN markFrom(def, tys,
                       markFrom(def, tys, miss \cup {tys[i]}, tys[i], 1),
                       m, i + 1)
         ELSE markFrom(def, tys, miss, m, i + 1)

\* the marking loop started one element late
markImportedMissingSkipFirst(def, tys, miss, m) == markFrom(def, tys, miss, m, 2)

markImportedMissing(def, tys, miss, m) == markFrom(def, tys, miss, m, 1)

\* the incomplete test of the main loop: a flagged type on the base chain
\* (the type itself included) or a flagged import
incomplete(def, miss, t) ==
    \/ BaseChain(def, t) \cap miss # {}
    \/ getImports(def, t) \cap miss # {}

\* the main loop over the list from index j on
RECURSIVE findIncomplete(_, _, _, _, _)
findIncomplete(def, tys, miss, shrink, j) ==
    IF j > Len(tys) THEN [missing |-> miss, shrink |-> shrink]
    ELSE IF incomplete(def, miss, tys[j])
         THEN findIncomplete(def, tys,
                             markImportedMissing(def, tys, miss \cup {tys[j]}, tys[j]),
                             TRUE, j + 1)
         ELSE findIncomplete(def, tys, miss, shrink, j + 1)

PropagateMissing ==
    /\ pc = "propagate"
    /\ LET r == findIncomplete(asmDef, types, missing, FALSE, 1) IN
       /\ missing' = r.missing
       /\ pc' = IF r.shrink THEN "compact" ELSE "declare"
    /\ UNCHANGED <<asmDef, nativeTypes, types, missing0, ordinalTypes, moduleTypes,
                   deletedTypes, cTypeName, trace, wellKnown,
                   typeCache, compiling>>
    /\ UNCHANGED <<lifeVars, codecVars, traceVars, pathVars, markVars, allocVars, threadVars, scriptVars>>

-----------------------------------------------------------------------------
(* finalizeAssemblyLoad, stage 3: compaction *)

\* the two-index loop without module->removeType
RECURSIVE compactLoopKeepModule(_, _, _, _, _, _, _)
compactLoopKeepModule(tys, miss, j, firstFree, mods, dels, tr) ==
    IF j > Len(tys)
    THEN [types |-> SubSeq(tys, 1, firstFree - 1), moduleTypes |-> mods,
          deleted |-> dels, trace |-> tr]
    ELSE IF tys[j] \notin miss
         THEN compactLoopKeepModule([tys EXCEPT ![firstFree] = tys[j]], miss, j + 1,
                                    firstFree + 1, mods, dels, tr)
         ELSE compactLoopKeepModule([tys EXCEPT ![j] = NULL], miss, j + 1, firstFree,
                                    mods, dels \cup {tys[j]},
                                    Append(tr, <<"lmDelete", tys[j]>>))

\* the two-index loop: a live type moves to types[firstFree], a missing one
\* is removed from its module, deleted, and its slot set to NULL
RECURSIVE compactLoop(_, _, _, _, _, _, _)
compactLoop(tys, miss, j, firstFree, mods, dels, tr) ==
    IF j > Len(tys)
    THEN [types |-> SubSeq(tys, 1, firstFree - 1), moduleTypes |-> mods,
          deleted |-> dels, trace |-> tr]
    ELSE IF tys[j] \notin miss
         THEN compactLoop([tys EXCEPT ![firstFree] = tys[j]], miss, j + 1,
                          firstFree + 1, mods, dels, tr)
         ELSE compactLoop([tys EXCEPT ![j] = NULL], miss, j + 1, firstFree,
                          mods \ {tys[j]}, dels \cup {tys[j]},
                          Append(tr, <<"lmDelete", tys[j]>>))

Compact ==
    /\ pc = "compact"
    /\ LET r == compactLoop(types, missing, 1, 1, moduleTypes, deletedTypes, trace) IN
       /\ types' = r.types
       /\ moduleTypes' = r.moduleTypes
       /\ deletedTypes' = r.deleted
       /\ trace' = r.trace
    /\ pc' = "declare"
    /\ UNCHANGED <<asmDef, nativeTypes, missing, missing0, ordinalTypes, cTypeName, wellKnown,
                   typeCache, compiling>>
    /\ UNCHANGED <<lifeVars, codecVars, traceVars, pathVars, markVars, allocVars, threadVars, scriptVars>>

-----------------------------------------------------------------------------
(* declareLuaTypes and initializeLuaTypes *)

\* one pass over the list from its end to its start
RECURSIVE callEachReversed(_, _, _, _, _)
callEachReversed(tys, miss, op, j, tr) ==
    IF j > Len(tys) THEN tr
    ELSE IF tys[Len(tys) + 1 - j] \in miss
         THEN callEachReversed(tys, miss, op, j + 1, tr)
         ELSE callEachReversed(tys, miss, op, j + 1,
                               Append(tr, <<op, tys[Len(tys) + 1 - j]>>))

\* one pass over the list without the test of the missing flag
RECURSIVE callEachNoSkip(_, _, _, _, _)
callEachNoSkip(tys, miss, op, j, tr) ==
    IF j > Len(tys) THEN tr
    ELSE callEachNoSkip(tys, miss, op, j + 1, Append(tr, <<op, tys[j]>>))

\* one pass over the list: op is called on every type that is not missing
RECURSIVE callEach(_, _, _, _, _)
callEach(tys, miss, op, j, tr) ==
    IF j > Len(tys) THEN tr
    ELSE IF tys[j] \in miss THEN callEach(tys, miss, op, j + 1, tr)
         ELSE callEach(tys, miss, op, j + 1, Append(tr, <<op, tys[j]>>))

\* the second pass without the managed contract check
RECURSIVE validateNativeUnchecked(_, _, _, _, _, _, _)
validateNativeUnchecked(def, table, tys, miss, j, tr, names) ==
    IF j > Len(tys) THEN [ok |-> TRUE, trace |-> tr, cTypeName |-> names]
    ELSE IF tys[j] \in miss \/ ~isNativeOrStaticNative(def, tys[j])
         THEN validateNativeUnchecked(def, table, tys, miss, j + 1, tr, names)
    ELSE IF getNativeType(table, tys[j]) = NULL
         THEN [ok |-> FALSE, trace |-> Append(tr, <<"LSError", tys[j]>>),
               cTypeName |-> names]
    ELSE validateNativeUnchecked(def, table, tys, miss, j + 1,
                                 Append(tr, <<"validate", tys[j]>>),
                                 names \cup {tys[j]})

\* the second pass without the test of the looked-up binding
RECURSIVE validateNativeNoLookupTest(_, _, _, _, _, _, _)
validateNativeNoLookupTest(def, table, tys, miss, j, tr, names) ==
    IF j > Len(tys) THEN [ok |-> TRUE, trace |-> tr, cTypeName |-> names]
    ELSE IF tys[j] \in miss \/ ~isNativeOrStaticNative(def, tys[j])
         THEN validateNativeNoLookupTest(def, table, tys, miss, j + 1, tr, names)
    ELSE IF isNativeManaged(def, tys[j]) # ntbIsManaged(table, tys[j])
         THEN [ok |-> FALSE, trace |-> Append(tr, <<"LSError", tys[j]>>),
               cTypeName |-> names]
    ELSE validateNativeNoLookupTest(def, table, tys, miss, j + 1,
                                    Append(tr, <<"validate", tys[j]>>),
                                    names \cup {tys[j]})

\* the second pass of declareLuaTypes: binding lookup, managed contract,
\* ntb->validate and setCTypeName; LSError ends the load
RECURSIVE validateNative(_, _, _, _, _, _, _)
validateNative(def, table, tys, miss, j, tr, names) ==
    IF j > Len(tys) THEN [ok |-> TRUE, trace |-> tr, cTypeName |-> names]
    ELSE IF tys[j] \in miss \/ ~isNativeOrStaticNative(def, tys[j])
         THEN validateNative(def, table, tys, miss, j + 1, tr, names)
    ELSE IF getNativeType(table, tys[j]) = NULL
         THEN [ok |-> FALSE, trace |-> Append(tr, <<"LSError", tys[j]>>),
               cTypeName |-> names]
    ELSE IF isNativeManaged(def, tys[j]) # ntbIsManaged(table, tys[j])
         THEN [ok |-> FALSE, trace |-> Append(tr, <<"LSError", tys[j]>>),
               cTypeName |-> names]
    ELSE validateNative(def, table, tys, miss, j + 1,
                        Append(tr, <<"validate", tys[j]>>), names \cup {tys[j]})

\* declareClass and the binding validation done type by type, in one pass
RECURSIVE declareOnePass(_, _, _, _, _, _, _)
declareOnePass(def, table, tys, miss, j, tr, names) ==
    IF j > Len(tys) THEN [ok |-> TRUE, trace |-> tr, cTypeName |-> names]
    ELSE IF tys[j] \in miss
         THEN declareOnePass(def, table, tys, miss, j + 1, tr, names)
    ELSE IF ~isNativeOrStaticNative(def, tys[j])
         THEN declareOnePass(def, table, tys, miss, j + 1,
                             Append(tr, <<"declareClass", tys[j]>>), names)
    ELSE IF \/ getNativeType(table, tys[j]) = NULL
            \/ isNativeManaged(def, tys[j]) # ntbIsManaged(table, tys[j])
         THEN [ok |-> FALSE,
               trace |-> tr \o << <<"declareClass", tys[j]>>, <<"LSError", tys[j]>> >>,
               cTypeName |-> names]
    ELSE declareOnePass(def, table, tys, miss, j + 1,
                        tr \o << <<"declareClass", tys[j]>>, <<"validate", tys[j]>> >>,
                        names \cup {tys[j]})
declareLuaTypesOnePass(def, table, tys, miss, tr, names) ==
    declareOnePass(def, table, tys, miss, 1, tr, names)

\* the two loops of declareLuaTypes: declareClass on every type that is not
\* missing, then the binding validation of the native ones
declareLuaTypes(def, table, tys, miss, tr, names) ==
    validateNative(def, table, tys, miss, 1,
                   callEach(tys, miss, "declareClass", 1, tr), names)

DeclareLuaTypes ==
    /\ pc = "declare"
    /\ LET r == declareLuaTypes(asmDef, nativeTypes, types, missing, trace, cTypeName) IN
       /\ trace' = r.trace
       /\ cTypeName' = r.cTypeName
       /\ pc' = IF r.ok THEN "initialize" ELSE "fatal"
    /\ UNCHANGED <<asmDef, nativeTypes, types, missing, missing0, ordinalTypes,
                   moduleTypes, deletedTypes, wellKnown,
                   typeCache, compiling>>
    /\ UNCHANGED <<lifeVars, codecVars, traceVars, pathVars, markVars, allocVars, threadVars, scriptVars>>

\* the three steps run type by type instead of pass by pass
RECURSIVE initializePerType(_, _, _, _)
initializePerType(tys, miss, j, tr) ==
    IF j > Len(tys) THEN tr
    ELSE IF tys[j] \in miss THEN initializePerType(tys, miss, j + 1, tr)
         ELSE initializePerType(tys, miss, j + 1,
                                tr \o << <<"cache", tys[j]>>,
                                         <<"initializeClass", tys[j]>>,
                                         <<"classinitializestatic", tys[j]>> >>)
initializeLuaTypesPerType(tys, miss, tr) == initializePerType(tys, miss, 1, tr)

\* three passes over the same list: Type::cache, initializeClass, then the
\* static initializers
initializeLuaTypes(tys, miss, tr) ==
    callEach(tys, miss, "classinitializestatic", 1,
             callEach(tys, miss, "initializeClass", 1,
                      callEach(tys, miss, "cache", 1, tr)))

InitializeLuaTypes ==
    /\ pc = "initialize"
    /\ trace' = initializeLuaTypes(types, missing, trace)
    /\ pc' = "bootstrap"
    /\ UNCHANGED <<asmDef, nativeTypes, types, missing, missing0, ordinalTypes,
                   moduleTypes, deletedTypes, cTypeName, wellKnown,
                   typeCache, compiling>>
    /\ UNCHANGED <<lifeVars, codecVars, traceVars, pathVars, markVars, allocVars, threadVars, scriptVars>>

\* assembly->bootstrap(), the last statement of finalizeAssemblyLoad
Bootstrap ==
    /\ pc = "bootstrap"
    /\ trace' = Append(trace, <<"bootstrap", NULL>>)
    /\ pc' = "ready"
    /\ UNCHANGED <<asmDef, nativeTypes, types, missing, missing0, ordinalTypes,
                   moduleTypes, deletedTypes, cTypeName, wellKnown,
                   typeCache, compiling>>
    /\ UNCHANGED <<lifeVars, codecVars, traceVars, pathVars, markVars, allocVars, threadVars, scriptVars>>

-----------------------------------------------------------------------------
(* lsLuaAlloc: the allocator handed to lua_newstate, and its byte counter *)

\* number of blocks a VM can hold, its state block included
NumBlocks == 2
\* largest size of a block
MaxSize == 2

Block == 1..NumBlocks

\* size_t on the builds that install lsLuaAlloc has 32 bits; a value is kept
\* as <<high, low>>, two digits of base 2^16
WordBase == 65536
toSize(v) == <<(v \div WordBase) % WordBase, v % WordBase>>
\* a - b and a + b in size_t arithmetic
sizeSub(a, b) ==
    LET borrow == IF a[2] < b[2] THEN 1 ELSE 0 IN
    <<(a[1] - b[1] - borrow) % WordBase, (a[2] - b[2]) % WordBase>>
sizeAdd(a, b) ==
    LET carry == (a[2] + b[2]) \div WordBase IN
    <<(a[1] + b[1] + carry) % WordBase, (a[2] + b[2]) % WordBase>>

\* the counter update with the old size left out
lsLuaAllocAddOnly(allocated, osize, nsize) == sizeAdd(allocated, toSize(nsize))

\* LSLuaState::allocatedBytes += nsize - osize
lsLuaAlloc(allocated, osize, nsize) ==
    sizeAdd(allocated, sizeSub(toSize(nsize), toSize(osize)))

\* the counter after a call of the VM's allocator: lsLuaAlloc where open()
\* installed it, the default allocator of luaL_newstate elsewhere
allocatorCall(is64, allocated, osize, nsize) ==
    IF is64 THEN allocated ELSE lsLuaAlloc(allocated, osize, nsize)

\* lua_newstate and luaL_newstate allocate the VM's state block
newstateBlocks == [b \in Block |-> IF b = 1 THEN 1 ELSE 0]
noBlocks       == [b \in Block |-> 0]

\* lua_close frees every block of the VM, from block b on
RECURSIVE freeBlocks(_, _, _, _)
freeBlocks(is64, allocated, bl, b) ==
    IF b > NumBlocks THEN allocated
    ELSE freeBlocks(is64,
                    IF bl[b] = 0 THEN allocated
                    ELSE allocatorCall(is64, allocated, bl[b], 0),
                    bl, b + 1)

\* the sizes of the live blocks of a VM, and of all VMs, added up
RECURSIVE SumBlocks(_, _)
SumBlocks(bl, b) == IF b > NumBlocks THEN 0 ELSE bl[b] + SumBlocks(bl, b + 1)
LiveBytes(i) == SumBlocks(blocks[i], 1)
RECURSIVE SumLive(_)
SumLive(i) == IF i > NumInstances THEN 0 ELSE LiveBytes(i) + SumLive(i + 1)
TotalLive == SumLive(1)

\* a build whose VMs use the default allocator: the counter stays 0
AllocIdle ==
    /\ platform64 = TRUE
    /\ allocatedBytes = toSize(0)
    /\ blocks = [i \in Instance |-> IF L[i] # NULL THEN newstateBlocks ELSE noBlocks]

\* no markImportedMissing call under way
MarkIdle ==
    /\ markStack = <<>>
    /\ markCalls = 0
    /\ markArg = NULL

\* no thread under way
ThreadIdle ==
    /\ tpc = [i \in Instance |-> "none"]
    /\ treg = [i \in Instance |-> {}]

\* a VectorTextEditor as its constructor leaves it
EditorIdle ==
    /\ hasIMEFocus = FALSE
    /\ imeAttached = FALSE
    /\ caretChild = FALSE
    /\ currentEditor = "null"
    /\ isEditable = TRUE
    /\ text = <<>>
    /\ restrict = <<>>
    /\ maxChars = 0
    /\ textArg = <<>>
    /\ editorLog = <<>>

\* no stringify call made
JsonIdle ==
    /\ heap = <<>>
    /\ jsonArg = NULL
    /\ jsonOut = <<>>

\* no script-side object in use
ScriptIdle == EditorIdle /\ JsonIdle

\* the parts of the state the specification at hand leaves alone
OthersIdle == MarkIdle /\ AllocIdle /\ ThreadIdle /\ ScriptIdle

-----------------------------------------------------------------------------
(* The assemblies the load pipeline is run on *)

\* an edge <<"base", a, b>>: a extends b; <<"import", a, b>>: a imports b
AllEdges == {<<"import", a, b>> : a \in Type, b \in Type}
            \cup {e \in {<<"base", a, b>> : a \in Type, b \in Type} : e[2] # e[3]}

RECURSIVE EdgeSets(_)
EdgeSets(k) ==
    IF k = 0 THEN {{}}
    ELSE LET S == EdgeSets(k - 1) IN
         S \cup {g \cup {e} : g \in S, e \in AllEdges}

BaseOf(g, a)    == IF \E b \in Type : <<"base", a, b>> \in g
                   THEN CHOOSE b \in Type : <<"base", a, b>> \in g
                   ELSE NULL
ImportsOf(g, a) == {b \in Type : <<"import", a, b>> \in g}

\* n steps up the base edges of g from t
RECURSIVE Up(_, _, _)
Up(g, t, n) == IF n = 0 \/ t = NULL THEN t ELSE Up(g, BaseOf(g, t), n - 1)

\* a type has one base type at most and inheritance has no cycle
WellFormed(g) ==
    /\ \A a \in Type : Cardinality({b \in Type : <<"base", a, b>> \in g}) <= 1
    /\ \A a \in Type : Up(g, a, NumTypes) = NULL

Graphs == {g \in EdgeSets(MaxEdges) : WellFormed(g)}

\* ordinal IDs as the compiler assigns them, 1..N: in list order, or reversed
IdentityIds   == [t \in Type |-> t]
IdAssignments == {IdentityIds, [t \in Type |-> NumTypes + 1 - t]}

\* the full names of the types of an application assembly, in list order
AppTypes == <<"app.T1", "app.T2", "app.T3", "app.T4", "app.T5", "app.T6">>
AppNames == [t \in Type |-> AppTypes[t]]

\* the type list of the system assembly, by full name
SystemTypes == <<"system.Object", "system.Null", "system.Boolean", "system.Number",
                 "system.String", "system.Function", "system.Vector",
                 "system.reflection.Type">>

\* no assembly cached yet
NoReferences == [n \in WellKnownName |-> NoType]
\* the references and the typeCache once the system assembly, assembly 1, is
\* cached
SystemReferences ==
    [n \in WellKnownName |->
        TypeObject(1, CHOOSE k \in DOMAIN SystemTypes : SystemTypes[k] = n)]
SystemTypeCache == {<<SystemTypes[k], TypeObject(1, k)>> : k \in DOMAIN SystemTypes}

NoneNative == [t \in Type |-> FALSE]
NoBindings == [t \in Type |-> "none"]

\* a script type, or a native one with its declared managed flag and binding
NativeKinds == {[native |-> FALSE, managed |-> FALSE, binding |-> "none"]}
               \cup [native : {TRUE}, managed : BOOLEAN,
                     binding : {"none", "managed", "unmanaged"}]

GraphDefs ==
    {[typeID |-> IdentityIds,
      baseType |-> [t \in Type |-> BaseOf(g, t)],
      imports |-> [t \in Type |-> ImportsOf(g, t)],
      native |-> NoneNative, managed |-> NoneNative, name |-> AppNames] :
        g \in Graphs}

NativeDef(ids, k) ==
    [typeID |-> ids,
     baseType |-> [t \in Type |-> NULL],
     imports |-> [t \in Type |-> {}],
     native |-> [t \in Type |-> k[t].native],
     managed |-> [t \in Type |-> k[t].managed],
     name |-> AppNames]

\* no type, or one, flagged missing by the parse
FewMissing == {m \in SUBSET Type : Cardinality(m) <= 1}

\* the type list as Assembly::getTypes hands it out
TypeList == [i \in 1..NumTypes |-> i]

LifeIdle ==
    /\ proc = "running"
    /\ L = [i \in Instance |-> IF i = 1 THEN 1 ELSE NULL]
    /\ toLuaState = {<<1, 1>>}
    /\ lastState = NULL
    /\ lastLSState = NULL
    /\ assemblies = [i \in Instance |-> IF i = 1 THEN <<1>> ELSE <<>>]
    /\ nextAssembly = 2
    /\ deleteCount = [a \in Assembly |-> 0]
    /\ closeCount = [h \in Handle \cup {NULL} |-> 0]
    /\ lastCall = [op |-> "open", inst |-> 1]
    /\ nCalls = 1
    /\ everClosed = {}
    /\ wellKnown = SystemReferences
    /\ typeCache = SystemTypeCache

CodecIdle ==
    /\ buffer = <<>>
    /\ decoded = [status |-> "none", bytes |-> <<>>]

\* no trap so far: open() has cleared the trace message
TraceIdle ==
    /\ callStack = <<>>
    /\ tracestack = <<>>
    /\ tracemessage = ""
    /\ errlog = <<>>

\* no path asked for
PathIdle ==
    /\ assemblyName = <<>>
    /\ absPath = FALSE
    /\ filePath = <<"?">>

InitLoad ==
    /\ LifeIdle
    /\ CodecIdle
    /\ TraceIdle
    /\ PathIdle
    /\ pc = "cache"
    /\ \/ /\ asmDef \in GraphDefs
          /\ nativeTypes = NoBindings
          /\ missing0 \in SUBSET Type
       \/ \E ids \in IdAssignments, k \in [Type -> NativeKinds] :
             /\ asmDef = NativeDef(ids, k)
             /\ nativeTypes = [t \in Type |-> k[t].binding]
             /\ missing0 \in FewMissing
    /\ missing = missing0
    /\ types = TypeList
    /\ ordinalTypes = <<>>
    /\ moduleTypes = Type
    /\ deletedTypes = {}
    /\ cTypeName = {}
    /\ trace = <<>>
    /\ compiling = FALSE
    /\ OthersIdle

NextLoad ==
    \/ CacheAssemblyTypes
    \/ ResolveNative
    \/ PropagateMissing
    \/ Compact
    \/ DeclareLuaTypes
    \/ InitializeLuaTypes
    \/ Bootstrap

SpecLoad == InitLoad /\ [][NextLoad]_vars

-----------------------------------------------------------------------------
(* Properties of the load pipeline (SpecLoad) *)

\* the indices of the trace at which op was called
Calls(op) == {i \in DOMAIN trace : trace[i][1] = op}
\* the number of calls of op on type t
CallCount(op, t) == Cardinality({i \in Calls(op) : trace[i][2] = t})

\* finalizeAssemblyLoad is past propagation and compaction
Compacted == pc \in {"declare", "initialize", "bootstrap", "ready"}
            \/ (pc = "fatal" /\ Calls("LSError") # {})

\* the types x reaches through one or more import edges
RECURSIVE ImportClosure(_, _)
ImportClosure(def, S) ==
    LET S2 == S \cup UNION {getImports(def, t) : t \in S} IN
    IF S2 = S THEN S ELSE ImportClosure(def, S2)
TransitiveImports(def, x) == ImportClosure(def, getImports(def, x))

\* C1: every declareClass call precedes every initializeClass call, which
\* precedes every static initializer call, and once initializeLuaTypes has
\* returned each type that is not missing got each of the three exactly once.
C1_PipelineOrdering ==
    /\ \A i \in Calls("declareClass"), j \in Calls("initializeClass") : i < j
    /\ \A j \in Calls("initializeClass"), k \in Calls("classinitializestatic") : j < k
    /\ pc \in {"bootstrap", "ready"} =>
          \A t \in Type \ missing :
             /\ CallCount("declareClass", t) = 1
             /\ CallCount("initializeClass", t) = 1
             /\ CallCount("classinitializestatic", t) = 1

\* a whole cohort of NumTypes types went through the three phases
C1_Witness ==
    /\ pc = "ready"
    /\ Len(types) = NumTypes
    /\ Cardinality(Calls("classinitializestatic")) = NumTypes

\* C2: a type that reaches, through one or more imports, a type flagged
\* missing before the load is flagged missing by the propagation pass and is
\* not in the compacted type list.
C2_ImportClosure ==
    \A x \in Type :
       TransitiveImports(asmDef, x) \cap missing0 # {} =>
          /\ (pc = "compact" \/ Compacted) => x \in missing
          /\ Compacted => x \notin Range(types)

\* X imports Y, Y imports Z, only Z was flagged: X and Y are gone, and Z
C2_Witness ==
    /\ Compacted
    /\ \E x, y, z \in Type :
          /\ Cardinality({x, y, z}) = NumTypes
          /\ missing0 = {z}
          /\ z \in getImports(asmDef, y) /\ y \in getImports(asmDef, x)
          /\ z \notin getImports(asmDef, x)
          /\ types = <<>>

\* C3: once compaction is due the marking is a fixed point: the base-type
\* chain and the imports of every type that stays in the list are
\* non-missing and stay in the list too.
C3_FixedPoint ==
    (pc = "compact" \/ Compacted) =>
       \A t \in Range(types) \ missing :
          (BaseChain(asmDef, t) \cup getImports(asmDef, t)) \cap missing = {}

\* C4 as stated: the ordinal slot of every live type holds it and its ID is
\* between 1 and the number of live types.
C4_OrdinalLiveCount ==
    pc \notin {"cache", "fatal"} =>
       \A t \in moduleTypes :
          /\ ordinalTypes[getTypeID(asmDef, t) + 1] = t
          /\ 1 <= getTypeID(asmDef, t)
          /\ getTypeID(asmDef, t) <= Cardinality(moduleTypes)

\* C4 amended: the ordinal slot of every live type holds it and its ID is
\* between 1 and the number of types cached, the ordinalTypes array having
\* that number plus one slots; removing missing types renumbers nothing.
C4_OrdinalCached ==
    pc \notin {"cache", "fatal"} =>
       /\ Len(ordinalTypes) = NumTypes + 1
       /\ \A t \in moduleTypes :
             /\ ordinalTypes[getTypeID(asmDef, t) + 1] = t
             /\ 1 <= getTypeID(asmDef, t)
             /\ getTypeID(asmDef, t) <= Len(ordinalTypes) - 1

\* after compaction a live type carries an ID above the number of live types
C4_Witness ==
    /\ pc = "ready"
    /\ moduleTypes # Type
    /\ \E t \in moduleTypes : getTypeID(asmDef, t) > Cardinality(moduleTypes)

\* a type that is not missing whose declared managed flag differs from the
\* managed flag of its registered binding
ManagedMismatch(t) ==
    /\ t \notin missing
    /\ isNativeOrStaticNative(asmDef, t)
    /\ getNativeType(nativeTypes, t) # NULL
    /\ isNativeManaged(asmDef, t) # ntbIsManaged(nativeTypes, t)

InitializeCalls == Calls("cache") \cup Calls("initializeClass")
                   \cup Calls("classinitializestatic") \cup Calls("bootstrap")

\* C5 as stated: with a managed mismatch the load is fatal before any
\* declareClass and before any initialize step.
C5_FatalBeforeDeclare ==
    (\E t \in Type : ManagedMismatch(t)) =>
       /\ pc \in {"cache", "resolve", "propagate", "compact", "declare", "fatal"}
       /\ Calls("declareClass") = {}
       /\ InitializeCalls = {}

\* C5 amended: with a managed mismatch the load is fatal before any
\* initialize step; the error is raised in the second pass of
\* declareLuaTypes, when declareClass has run on every type of the cohort
\* that is not missing.
C5_FatalBeforeInitialize ==
    (\E t \in Type : ManagedMismatch(t)) =>
       /\ pc \in {"cache", "resolve", "propagate", "compact", "declare", "fatal"}
       /\ InitializeCalls = {}
       /\ Calls("LSError") # {} =>
             \A u \in Type \ missing : CallCount("declareClass", u) = 1

\* the managed check ended a load in which declareClass had already run
C5_Witness ==
    /\ pc = "fatal"
    /\ trace # <<>>
    /\ \E t \in Type : ManagedMismatch(t) /\ trace[Len(trace)] = <<"LSError", t>>
    /\ Cardinality(Calls("declareClass")) = NumTypes

\* a type that is not missing, is native or has a static native member, and
\* has no binding registered
UnboundNative(t) ==
    /\ t \notin missing
    /\ isNativeOrStaticNative(asmDef, t)
    /\ getNativeType(nativeTypes, t) = NULL

\* C13: with an unbound native type the load is fatal at the binding lookup:
\* it never gets past native resolution, no initialize or static-init step
\* runs, the binding of the type is never used (no validate, no host type
\* name), and the lookup of declareLuaTypes run on the list ends in LSError
\* before using it.
C13_UnboundNativeFatal ==
    \A t \in Type :
       UnboundNative(t) =>
          /\ pc \in {"cache", "resolve", "fatal"}
          /\ InitializeCalls = {}
          /\ <<"validate", t>> \notin Range(trace)
          /\ t \notin cTypeName
          /\ t \in Range(types) =>
                LET r == declareLuaTypes(asmDef, nativeTypes, types, missing,
                                         <<>>, {})
                IN /\ ~r.ok
                   /\ r.trace[Len(r.trace)][1] = "LSError"
                   /\ <<"validate", t>> \notin Range(r.trace)
                   /\ t \notin r.cTypeName

\* the load ended at the unbound type, the native types listed before it
\* having been resolved
C13_Witness ==
    /\ pc = "fatal"
    /\ \E t \in Type \ {1} :
          /\ UnboundNative(t)
          /\ \A u \in Type : u < t => <<"resolveScriptType", u>> \in Range(trace)
          /\ Calls("LSError") = {}

\* the place of type t in the list
PlaceInList(t) == CHOOSE i \in DOMAIN types : types[i] = t

\* C20: initializeLuaTypes makes three passes over the list: every
\* Type::cache call precedes every initializeClass call, which precedes every
\* static initializer; when a static initializer runs, every type of the
\* list that is not missing has been cached and class-initialized; the
\* static initializers run in list order; and each type of the list that is
\* not missing gets each step once, a missing type none.
C20_ThreePasses ==
    /\ \A i \in Calls("cache"), j \in Calls("initializeClass") : i < j
    /\ \A j \in Calls("initializeClass"), k \in Calls("classinitializestatic") : j < k
    /\ \A k \in Calls("classinitializestatic") :
          \A t \in Range(types) \ missing :
             /\ \E i \in Calls("cache") : i < k /\ trace[i][2] = t
             /\ \E j \in Calls("initializeClass") : j < k /\ trace[j][2] = t
    /\ \A op \in {"cache", "initializeClass", "classinitializestatic"} :
          \A h, k \in Calls(op) :
             h < k => PlaceInList(trace[h][2]) < PlaceInList(trace[k][2])
    /\ pc \in {"bootstrap", "ready"} =>
          \A op \in {"cache", "initializeClass", "classinitializestatic"} :
             \A t \in Type :
                CallCount(op, t) = IF t \in Range(types) \ missing THEN 1 ELSE 0

\* the passes ran over a list of two types at least from which a missing
\* type had been removed
C20_Witness ==
    /\ pc = "bootstrap"
    /\ missing # {}
    /\ Len(types) >= 2
    /\ Cardinality(Calls("classinitializestatic")) = Len(types)
    /\ trace[Len(trace)] = <<"classinitializestatic", types[Len(types)]>>

\* C16: compaction is a stable filter: the list is the subsequence of the
\* types that are not missing, in their original order, its length is the
\* original count less the number of missing types, and each missing type
\* is out of its module and deleted exactly once, no other type being
\* touched.
C16_StableCompaction ==
    Compacted =>
       /\ types = SelectSeq(TypeList, LAMBDA t : t \notin missing)
       /\ Len(types) = NumTypes - Cardinality(missing)
       /\ moduleTypes = Type \ missing
       /\ deletedTypes = missing
       /\ \A t \in Type :
             CallCount("lmDelete", t) = IF t \in missing THEN 1 ELSE 0

\* a type in the middle of the list was removed and the two around it kept
\* their order
C16_Witness ==
    /\ pc = "ready"
    /\ missing = {2}
    /\ Len(types) = NumTypes - 1
    /\ types[1] = 1 /\ types[2] = 3
    /\ CallCount("lmDelete", 2) = 1

\* the native types left in the list
NativeInList == {t \in Range(types) \ missing : isNativeOrStaticNative(asmDef, t)}

\* C22: the binding validation of a native type, and the LSError of a
\* failed managed-flag check, come after the declareClass call of every type
\* of the list that is not missing, whatever the place of the native type in
\* the list; once declareLuaTypes has returned, the native types of the list,
\* and no others, carry the host type name of their binding, each validated
\* once.
C22_ValidateAfterDeclare ==
    /\ \A v \in Calls("validate") \cup Calls("LSError") :
          \A t \in Range(types) \ missing :
             \E d \in Calls("declareClass") : d < v /\ trace[d][2] = t
    /\ \A v \in Calls("validate") : trace[v][2] \in NativeInList
    /\ pc \in {"initialize", "bootstrap", "ready"} =>
          /\ cTypeName = NativeInList
          /\ \A t \in Type :
                CallCount("validate", t) = IF t \in NativeInList THEN 1 ELSE 0

\* the first type of a full list is native and was validated after the
\* declareClass of the last, which is a script type
C22_Witness ==
    /\ pc = "initialize"
    /\ Len(types) = NumTypes
    /\ cTypeName = {types[1]}
    /\ \E d \in Calls("declareClass"), v \in Calls("validate") :
          /\ trace[d][2] = types[NumTypes]
          /\ trace[v][2] = types[1]
          /\ d < v

\* the calls that hand a type to the VM or to its binding
GuardedOp == {"declareClass", "validate", "cache", "initializeClass",
              "classinitializestatic"}
\* the types such a call was made on in trace tr
GuardedTypes(tr) == {tr[i][2] : i \in {k \in DOMAIN tr : tr[k][1] \in GuardedOp}}

\* C23: no type that is flagged missing and no type deleted by compaction
\* is handed to declareClass, the binding validation, Type::cache,
\* initializeClass or the static initializer: none appears in the calls
\* made, the list handed to declare and initialize holds none, and the
\* passes of declareLuaTypes and initializeLuaTypes skip the flagged types of
\* a list that still holds them.
C23_MissingNeverDeclared ==
    /\ GuardedTypes(trace) \cap (missing \cup deletedTypes) = {}
    /\ Compacted => Range(types) \cap (missing \cup deletedTypes) = {}
    /\ GuardedTypes(declareLuaTypes(asmDef, nativeTypes, TypeList, missing,
                                    <<>>, {}).trace) \cap missing = {}
    /\ GuardedTypes(initializeLuaTypes(TypeList, missing, <<>>)) \cap missing = {}

\* a type flagged by the parse and its importer were deleted and the type
\* left went through declare and initialize
C23_Witness ==
    /\ pc = "ready"
    /\ missing0 # {}
    /\ missing # missing0
    /\ deletedTypes = missing
    /\ GuardedTypes(trace) = Type \ missing
    /\ GuardedTypes(trace) # {}

\* C34: once finalizeAssemblyLoad has deleted the missing types, nothing
\* that cacheAssemblyTypes filled refers to a deleted type: not a slot of the
\* assembly's ordinalTypes, not an entry of the instance's typeCache, not one
\* of the fast-access references.
C34_NoDeletedTypeCached ==
    /\ \A k \in DOMAIN ordinalTypes : ordinalTypes[k] \notin deletedTypes
    /\ \A e \in typeCache :
          e[2][1] = nextAssembly => e[2][2] \notin deletedTypes
    /\ \A n \in WellKnownName :
          wellKnown[n][1] = nextAssembly => wellKnown[n][2] \notin deletedTypes

-----------------------------------------------------------------------------
(* markImportedMissing call by call: the recursion as a stack of frames *)

\* the frame of the call under way
TopFrame == markStack[Len(markStack)]
\* the type the loop of that frame is at, NULL past the end of the list
TopType  == IF TopFrame.i > Len(types) THEN NULL ELSE types[TopFrame.i]

\* the recursion entered without flagging the importer
recurseWithoutFlag(miss, t) == miss

\* type->setMissing("missing import ...") ahead of the recursive call
flagImporter(miss, t) == miss \cup {t}

\* the call finalizeAssemblyLoad makes once it has flagged markArg
MarkCall ==
    /\ markStack = <<>>
    /\ markCalls = 0
    /\ markStack' = << [m |-> markArg, i |-> 1] >>
    /\ markCalls' = 1
    /\ UNCHANGED <<markArg, lifeVars, loadVars, codecVars, traceVars, pathVars,
                   allocVars, threadVars, scriptVars>>

\* if (type->getMissing()) continue;
MarkSkipMissing ==
    /\ markStack # <<>>
    /\ TopType # NULL
    /\ TopType \in missing
    /\ markStack' = [markStack EXCEPT ![Len(markStack)].i = @ + 1]
    /\ UNCHANGED <<markCalls, markArg, lifeVars, loadVars, codecVars, traceVars,
                   pathVars, allocVars, threadVars, scriptVars>>

\* the import loop finds no import equal to the argument
MarkPass ==
    /\ markStack # <<>>
    /\ TopType # NULL
    /\ TopType \notin missing
    /\ TopFrame.m \notin getImports(asmDef, TopType)
    /\ markStack' = [markStack EXCEPT ![Len(markStack)].i = @ + 1]
    /\ UNCHANGED <<markCalls, markArg, lifeVars, loadVars, codecVars, traceVars,
                   pathVars, allocVars, threadVars, scriptVars>>

\* an import equals the argument: the type is flagged and the function
\* calls itself for it; the break after the call moves the caller's loop on.
\* The stack has room for one frame more than there are types.
MarkRecurse ==
    /\ markStack # <<>>
    /\ TopType # NULL
    /\ TopType \notin missing
    /\ TopFrame.m \in getImports(asmDef, TopType)
    /\ Len(markStack) <= NumTypes
    /\ missing' = flagImporter(missing, TopType)
    /\ markStack' = Append([markStack EXCEPT ![Len(markStack)].i = @ + 1],
                           [m |-> TopType, i |-> 1])
    /\ markCalls' = markCalls + 1
    /\ UNCHANGED <<pc, asmDef, nativeTypes, types, missing0, ordinalTypes,
                   moduleTypes, deletedTypes, cTypeName, trace, wellKnown, typeCache,
                   compiling>>
    /\ UNCHANGED <<markArg, lifeVars, codecVars, traceVars, pathVars, allocVars,
                   threadVars, scriptVars>>

\* the loop is past the end of the list: the call returns
MarkReturn ==
    /\ markStack # <<>>
    /\ TopType = NULL
    /\ markStack' = SubSeq(markStack, 1, Len(markStack) - 1)
    /\ UNCHANGED <<markCalls, markArg, lifeVars, loadVars, codecVars, traceVars,
                   pathVars, allocVars, threadVars, scriptVars>>

\* the import graphs: markImportedMissing reads no base type
ImportDefs == {d \in GraphDefs : \A t \in Type : getBaseType(d, t) = NULL}

\* the types flagged when the call is made: its argument, and one more at most
FlaggedAtCall(m) == {S \in SUBSET Type : m \in S /\ Cardinality(S) <= 2}

InitMark ==
    /\ LifeIdle
    /\ CodecIdle
    /\ TraceIdle
    /\ PathIdle
    /\ AllocIdle
    /\ ThreadIdle
    /\ pc = "propagate"
    /\ asmDef \in ImportDefs
    /\ nativeTypes = NoBindings
    /\ markArg \in Type
    /\ missing0 \in FlaggedAtCall(markArg)
    /\ missing = missing0
    /\ types = TypeList
    /\ ordinalTypes = <<>>
    /\ moduleTypes = Type
    /\ deletedTypes = {}
    /\ cTypeName = {}
    /\ trace = <<>>
    /\ compiling = FALSE
    /\ markStack = <<>>
    /\ markCalls = 0
    /\ ScriptIdle

NextMark ==
    \/ MarkCall
    \/ MarkSkipMissing
    \/ MarkPass
    \/ MarkRecurse
    \/ MarkReturn

\* a call that is under way goes on
SpecMark == InitMark /\ [][NextMark]_vars /\ WF_vars(NextMark)

-----------------------------------------------------------------------------
(* Properties of the recursion (SpecMark) *)

\* the outermost call has returned
MarkDone == markCalls > 0 /\ markStack = <<>>

\* C24: the call returns, for every list and import graph, import cycles
\* and self-imports included; a recursive call is entered only by flagging a
\* type that was not flagged, for which it is made; so the calls number one
\* more than the types flagged by them, and neither the calls nor the depth
\* of the recursion exceed the number of types.  What the call has flagged
\* on return is the types that reach its argument through imports of types
\* not flagged before.
C24_MarkingTerminates ==
    /\ <>MarkDone
    /\ [](/\ Len(markStack) <= NumTypes
          /\ markCalls <= NumTypes
          /\ markCalls > 0 => markCalls = 1 + Cardinality(missing \ missing0)
          /\ \A k \in DOMAIN markStack : markStack[k].m \in missing
          /\ MarkDone => missing = markImportedMissing(asmDef, types, missing0,
                                                       markArg))
    /\ [][Len(markStack') > Len(markStack) /\ markStack # <<>> =>
             /\ markStack'[Len(markStack')].m \notin missing
             /\ missing' = missing \cup {markStack'[Len(markStack')].m}]_vars

\* the argument and a type import each other: the call made for that type
\* met the argument flagged and returned, two calls in all
C24_Witness ==
    /\ MarkDone
    /\ missing0 = {markArg}
    /\ markCalls = 2
    /\ \E t \in getImports(asmDef, markArg) \ {markArg} :
          /\ markArg \in getImports(asmDef, t)
          /\ missing = {markArg, t}

-----------------------------------------------------------------------------
(* open() and close(): the life cycle of the VM instances (Spec) *)

\* the keys of the registry
RegistryKeys == {e[1] : e \in toLuaState}

\* utHashTable::insert: a key already present keeps its value
registryInsert(reg, h, i) ==
    IF \E e \in reg : e[1] = h THEN reg ELSE reg \cup {<<h, i>>}
\* the erase left out
registryRemoveNothing(reg, h) == reg

\* utHashTable::remove
registryRemove(reg, h) == {e \in reg : e[1] # h}

\* the handles of the embedded VMs that are open: lua_newstate returns none
\* of them
LiveHandles == {L[i] : i \in Instance} \ {NULL}

\* a call is made by a running process, MaxCalls of them at most
Call(op, i) ==
    /\ proc = "running"
    /\ nCalls < MaxCalls
    /\ nCalls' = nCalls + 1
    /\ lastCall' = [op |-> op, inst |-> i]

\* the precondition dropped
openPreconditionNone(l) == TRUE

\* assert(!L)
openPrecondition(l) == l = NULL

\* lua_newstate(lsLuaAlloc, this), or luaL_newstate() on a 64-bit build,
\* allocates the state block; then the registry insert
Open(i) ==
    /\ Call("open", i)
    /\ IF ~openPrecondition(L[i])
       THEN /\ proc' = "assert"
            /\ UNCHANGED <<L, toLuaState, allocatedBytes, blocks>>
       ELSE /\ proc' = proc
            /\ \E h \in Handle \ LiveHandles :
                  /\ L' = [L EXCEPT ![i] = h]
                  /\ toLuaState' = registryInsert(toLuaState, h, i)
            /\ blocks' = [blocks EXCEPT ![i] = newstateBlocks]
            /\ allocatedBytes' = allocatorCall(platform64, allocatedBytes, 0,
                                               newstateBlocks[1])
    /\ UNCHANGED <<lastState, lastLSState, assemblies, nextAssembly, deleteCount,
                   closeCount, everClosed, platform64>>
    /\ UNCHANGED <<loadVars, codecVars, traceVars, pathVars, markVars, threadVars, scriptVars>>

\* the precondition dropped
closePreconditionNone(l) == TRUE

\* assert(L)
closePrecondition(l) == l # NULL

\* the handle left in place
handleAfterCloseKept(l) == l

\* L = NULL, the last statement of close()
handleAfterClose(l) == NULL

\* lmDelete on every assembly of the list; the list itself is left as it is
RECURSIVE deleteAssemblies(_, _, _)
deleteAssemblies(cnt, list, k) ==
    IF k > Len(list) THEN cnt
    ELSE deleteAssemblies([cnt EXCEPT ![list[k]] = @ + 1], list, k + 1)

\* close() without the reset of the fast path pair
CloseKeepPair(i) ==
    /\ Call("close", i)
    /\ IF ~closePrecondition(L[i])
       THEN /\ proc' = "assert"
            /\ UNCHANGED <<L, toLuaState, lastState, lastLSState, deleteCount,
                           closeCount, everClosed, allocatedBytes, blocks>>
       ELSE /\ proc' = proc
            /\ UNCHANGED <<lastState, lastLSState>>
            /\ deleteCount' = deleteAssemblies(deleteCount, assemblies[i], 1)
            /\ closeCount' = [closeCount EXCEPT ![L[i]] = @ + 1]
            /\ allocatedBytes' = freeBlocks(platform64, allocatedBytes, blocks[i], 1)
            /\ blocks' = [blocks EXCEPT ![i] = noBlocks]
            /\ toLuaState' = registryRemove(toLuaState, L[i])
            /\ L' = [L EXCEPT ![i] = handleAfterClose(L[i])]
            /\ everClosed' = everClosed \cup {i}
    /\ UNCHANGED <<assemblies, nextAssembly, platform64>>
    /\ UNCHANGED <<loadVars, codecVars, traceVars, pathVars, markVars, threadVars, scriptVars>>

\* close(): the teardown of an open instance
Close(i) ==
    /\ Call("close", i)
    /\ IF ~closePrecondition(L[i])
       THEN /\ proc' = "assert"
            /\ UNCHANGED <<L, toLuaState, lastState, lastLSState, deleteCount,
                           closeCount, everClosed, allocatedBytes, blocks>>
       ELSE /\ proc' = proc
            /\ IF lastState = L[i]
               THEN lastState' = NULL /\ lastLSState' = NULL
               ELSE UNCHANGED <<lastState, lastLSState>>
            /\ deleteCount' = deleteAssemblies(deleteCount, assemblies[i], 1)
            /\ closeCount' = [closeCount EXCEPT ![L[i]] = @ + 1]
            /\ allocatedBytes' = freeBlocks(platform64, allocatedBytes, blocks[i], 1)
            /\ blocks' = [blocks EXCEPT ![i] = noBlocks]
            /\ toLuaState' = registryRemove(toLuaState, L[i])
            /\ L' = [L EXCEPT ![i] = handleAfterClose(L[i])]
            /\ everClosed' = everClosed \cup {i}
    /\ UNCHANGED <<assemblies, nextAssembly, platform64>>
    /\ UNCHANGED <<loadVars, codecVars, traceVars, pathVars, markVars, threadVars, scriptVars>>

\* an assembly loaded into an open instance joins the list it owns
LoadAssembly(i) ==
    /\ L[i] # NULL
    /\ Call("load", i)
    /\ proc' = proc
    /\ assemblies' = [assemblies EXCEPT ![i] = Append(@, nextAssembly)]
    /\ nextAssembly' = nextAssembly + 1
    /\ UNCHANGED <<L, toLuaState, lastState, lastLSState, deleteCount, closeCount,
                   everClosed>>
    /\ UNCHANGED <<loadVars, codecVars, traceVars, pathVars, markVars, allocVars, threadVars, scriptVars>>

\* a native callback recovers the wrapper of handle h; the pair found becomes
\* the fast path pair
GetLuaState(h) ==
    /\ h \in RegistryKeys
    /\ LET ls == (CHOOSE e \in toLuaState : e[1] = h)[2] IN
       /\ Call("getLuaState", ls)
       /\ lastState' = h
       /\ lastLSState' = ls
    /\ proc' = proc
    /\ UNCHANGED <<L, toLuaState, assemblies, nextAssembly, deleteCount, closeCount,
                   everClosed>>
    /\ UNCHANGED <<loadVars, codecVars, traceVars, pathVars, markVars, allocVars, threadVars, scriptVars>>

LoadIdle ==
    /\ pc = "idle"
    /\ asmDef = NativeDef([t \in Type |-> t], [t \in Type |-> CHOOSE k \in NativeKinds : ~k.native])
    /\ nativeTypes = NoBindings
    /\ types = <<>>
    /\ missing = {}
    /\ missing0 = {}
    /\ ordinalTypes = <<>>
    /\ moduleTypes = {}
    /\ deletedTypes = {}
    /\ cTypeName = {}
    /\ trace = <<>>
    /\ compiling = FALSE

Init ==
    /\ proc = "running"
    /\ L = [i \in Instance |-> NULL]
    /\ toLuaState = {}
    /\ lastState = NULL
    /\ lastLSState = NULL
    /\ assemblies = [i \in Instance |-> <<>>]
    /\ nextAssembly = 1
    /\ deleteCount = [a \in Assembly |-> 0]
    /\ closeCount = [h \in Handle \cup {NULL} |-> 0]
    /\ lastCall = [op |-> "new", inst |-> NULL]
    /\ nCalls = 0
    /\ everClosed = {}
    /\ wellKnown = NoReferences
    /\ typeCache = {}
    /\ LoadIdle
    /\ CodecIdle
    /\ TraceIdle
    /\ PathIdle
    /\ OthersIdle

Next ==
    \/ \E i \in Instance : Open(i)
    \/ \E i \in Instance : Close(i)
    \/ \E i \in Instance : LoadAssembly(i)
    \/ \E h \in Handle : GetLuaState(h)

Spec == Init /\ [][Next]_vars

-----------------------------------------------------------------------------
(* Properties of the life cycle (Spec) *)

\* what the teardown steps of close() write
teardownVars == <<L, toLuaState, lastState, lastLSState, assemblies, deleteCount,
                  closeCount>>

\* C9: a close() call on an instance that is not open is rejected by the
\* precondition check and performs none of its teardown steps: nothing is
\* deleted, no VM is closed, the registry and the handle are untouched.
C9_CloseWhenNotOpenRejected ==
    [][(/\ nCalls' = nCalls + 1
        /\ lastCall'.op = "close"
        /\ L[lastCall'.inst] = NULL)
       => (proc' = "assert" /\ UNCHANGED teardownVars)]_vars

\* a second close() was rejected on an instance whose assembly the first
\* close() had deleted
C9_Witness ==
    /\ proc = "assert"
    /\ lastCall.op = "close"
    /\ lastCall.inst \in everClosed
    /\ assemblies[lastCall.inst] # <<>>
    /\ \A k \in DOMAIN assemblies[lastCall.inst] :
          deleteCount[assemblies[lastCall.inst][k]] = 1

\* C10 as stated: an instance on which close() has completed is never open
\* again.
C10_ClosedIsTerminal == \A i \in everClosed : L[i] = NULL

\* C10 amended: close() leaves the instance not open and out of the
\* registry, and only an open() call on that instance, which the
\* precondition check lets pass, makes it open again.
C10_ClosedUntilReopened ==
    /\ [](lastCall.op = "close" /\ proc = "running" =>
             /\ L[lastCall.inst] = NULL
             /\ \A e \in toLuaState : e[2] # lastCall.inst)
    /\ [][\A i \in Instance :
             (L[i] = NULL /\ L'[i] # NULL) =>
                (lastCall' = [op |-> "open", inst |-> i] /\ proc' = "running")]_vars

\* an instance that was closed is open again
C10_Witness ==
    \E i \in everClosed :
       /\ L[i] # NULL
       /\ <<L[i], i>> \in toLuaState
       /\ lastCall = [op |-> "open", inst |-> i]
       /\ proc = "running"

\* the instances that are open
OpenInstances == {i \in Instance : L[i] # NULL}

\* C11: the registry holds exactly the handles of the open instances, each
\* mapped to the instance that owns it; an instance that is not open has no
\* entry and NULL is no key.
C11_RegistryExact ==
    /\ toLuaState = {<<L[i], i>> : i \in OpenInstances}
    /\ \A i \in Instance \ OpenInstances : \A e \in toLuaState : e[2] # i
    /\ NULL \notin RegistryKeys
    /\ \A i, j \in OpenInstances : L[i] = L[j] => i = j

\* one instance is closed and the other is open on a handle that a closed
\* VM had before
C11_Witness ==
    /\ proc = "running"
    /\ \E i \in everClosed, j \in Instance :
          /\ L[i] = NULL
          /\ L[j] # NULL
          /\ closeCount[L[j]] > 0
          /\ toLuaState = {<<L[j], j>>}

\* what open() writes once its precondition holds
openVars == <<L, toLuaState, blocks, allocatedBytes>>

\* C26: an open() call on an instance that is open is rejected by the
\* precondition check and has no effect: no state block is allocated, the
\* byte counter, the stored handle and the registry are as they were.
C26_OpenWhenOpenRejected ==
    [][(/\ nCalls' = nCalls + 1
        /\ lastCall'.op = "open"
        /\ L[lastCall'.inst] # NULL)
       => (proc' = "assert" /\ UNCHANGED openVars /\ UNCHANGED teardownVars)]_vars

\* a second open() was rejected on an instance that is open and registered,
\* the other instance being closed
C26_Witness ==
    /\ proc = "assert"
    /\ lastCall.op = "open"
    /\ L[lastCall.inst] # NULL
    /\ toLuaState = {<<L[lastCall.inst], lastCall.inst>>}
    /\ blocks[lastCall.inst] = newstateBlocks

\* LSLuaState::getAssemblyByUID on the list of an instance: the assembly of
\* the list with that unique id, NULL when the list has none
getAssemblyByUID(list, uid) ==
    IF \E k \in DOMAIN list : list[k] = uid THEN uid ELSE NULL

\* C25: no assembly is deleted more than once, the list of an instance that
\* has been closed holds no deleted assembly, and getAssemblyByUID returns no
\* deleted assembly.
C25_ReleasedOnce ==
    /\ \A a \in Assembly : deleteCount[a] <= 1
    /\ \A i \in everClosed :
          \A k \in DOMAIN assemblies[i] : deleteCount[assemblies[i][k]] = 0
    /\ \A i \in Instance, uid \in Assembly :
          getAssemblyByUID(assemblies[i], uid) # NULL =>
             deleteCount[getAssemblyByUID(assemblies[i], uid)] = 0

\* the fast path pair is unset or is the handle of an open instance and
\* that instance
PairValid ==
    \/ lastState = NULL /\ lastLSState = NULL
    \/ \E i \in Instance : L[i] # NULL /\ lastState = L[i] /\ lastLSState = i

\* C33: the fast path pair never refers to a closed instance: it is unset,
\* or lastState is the handle of an instance that is open and lastLSState is
\* that instance; a close() of an instance whose handle is not the one in
\* the pair leaves the pair as it was.
C33_FastPathNeverClosed ==
    /\ []PairValid
    /\ [][(/\ lastCall'.op = "close"
           /\ nCalls' = nCalls + 1
           /\ proc' = "running"
           /\ L[lastCall'.inst] # lastState)
          => UNCHANGED <<lastState, lastLSState>>]_vars

\* two instances open, the pair on the first, the second just closed: the
\* pair still names the first
C33_Witness ==
    /\ lastCall = [op |-> "close", inst |-> 2]
    /\ proc = "running"
    /\ L[2] = NULL
    /\ L[1] # NULL
    /\ lastState = L[1]
    /\ lastLSState = 1

-----------------------------------------------------------------------------
(* The embedded VMs allocating: open(), close() and the allocator calls *)

\* the VM of instance i allocates block b (old size 0), changes its size, or
\* frees it (new size 0); the state block stays as lua_newstate made it
VMAlloc(i, b, nsize) ==
    /\ L[i] # NULL
    /\ b # 1
    /\ nsize # blocks[i][b]
    /\ Call("alloc", i)
    /\ proc' = proc
    /\ blocks' = [blocks EXCEPT ![i][b] = nsize]
    /\ allocatedBytes' = allocatorCall(platform64, allocatedBytes, blocks[i][b], nsize)
    /\ UNCHANGED <<L, toLuaState, lastState, lastLSState, assemblies, nextAssembly,
                   deleteCount, closeCount, everClosed, platform64>>
    /\ UNCHANGED <<loadVars, codecVars, traceVars, pathVars, markVars, threadVars, scriptVars>>

\* a process of either build with no instance open
InitAlloc ==
    /\ proc = "running"
    /\ L = [i \in Instance |-> NULL]
    /\ toLuaState = {}
    /\ lastState = NULL
    /\ lastLSState = NULL
    /\ assemblies = [i \in Instance |-> <<>>]
    /\ nextAssembly = 1
    /\ deleteCount = [a \in Assembly |-> 0]
    /\ closeCount = [h \in Handle \cup {NULL} |-> 0]
    /\ lastCall = [op |-> "new", inst |-> NULL]
    /\ nCalls = 0
    /\ everClosed = {}
    /\ wellKnown = NoReferences
    /\ typeCache = {}
    /\ LoadIdle
    /\ CodecIdle
    /\ TraceIdle
    /\ PathIdle
    /\ MarkIdle
    /\ ThreadIdle
    /\ platform64 \in BOOLEAN
    /\ allocatedBytes = toSize(0)
    /\ blocks = [i \in Instance |-> noBlocks]
    /\ ScriptIdle

NextAlloc ==
    \/ \E i \in Instance : Open(i)
    \/ \E i \in Instance : Close(i)
    \/ \E i \in Instance, b \in Block, nsize \in 0..MaxSize : VMAlloc(i, b, nsize)

SpecAlloc == InitAlloc /\ [][NextAlloc]_vars

-----------------------------------------------------------------------------
(* Properties of the byte counter (SpecAlloc) *)

\* C27 as stated: open() installs the counting allocator, so the counter is
\* the sum of the sizes of the live blocks.
C27_CounterIsLiveBytes == allocatedBytes = toSize(TotalLive)

\* C27 amended: on a build that is not 64-bit open() installs lsLuaAlloc and
\* the counter is the sum of the sizes of the blocks live in all the VMs of
\* the process, the wrapped difference of a shrinking or freeing call
\* leaving no wrapped counter; on a 64-bit build open() installs no
\* allocator of its own and the counter stays 0 whatever the VMs allocate.
C27_CounterWhereInstalled ==
    /\ ~platform64 => allocatedBytes = toSize(TotalLive)
    /\ platform64 => allocatedBytes = toSize(0)
    /\ allocatedBytes[1] = 0

\* with two VMs open on a build that counts, a VM has just freed a block
C27_Witness ==
    /\ ~platform64
    /\ lastCall.op = "alloc"
    /\ \A i \in Instance : L[i] # NULL
    /\ TotalLive > NumInstances
    /\ \E b \in Block : blocks[lastCall.inst][b] = 0
    /\ allocatedBytes = toSize(TotalLive)

\* the counter as instance i reads it: allocatedBytes is a static member
allocatedBytesOf(i) == allocatedBytes

\* C28: an allocator call made by the VM of one instance, or the close() of
\* one instance, leaves the counter of every other open instance unchanged.
C28_CounterPerInstance ==
    [][\A i \in Instance :
          (/\ nCalls' = nCalls + 1
           /\ lastCall'.op \in {"alloc", "close"}
           /\ lastCall'.inst # i
           /\ L[i] # NULL)
          => allocatedBytesOf(i)' = allocatedBytesOf(i)]_vars

-----------------------------------------------------------------------------
(* open() and close() of distinct instances, each called from its own thread. *)
(* The registry is a plain hash table with no lock: an insert or a remove by  *)
(* one thread reads the table and writes it back, and the steps of the two    *)
(* threads interleave.                                                        *)

\* the handles of the VMs not yet closed with lua_close: the allocator hands
\* out the address of a closed one again
ThreadLiveHandles ==
    {L[i] : i \in {j \in Instance : tpc[j] \in {"insert", "insertWrite", "open"}}}

\* utHashTable::get
registryLookup(reg, h) ==
    IF \E e \in reg : e[1] = h THEN (CHOOSE e \in reg : e[1] = h)[2] ELSE NULL

\* open(): assert(!L) holds, lua_newstate
ThreadNewState(i) ==
    /\ tpc[i] = "start"
    /\ openPrecondition(L[i])
    /\ \E h \in Handle \ ThreadLiveHandles : L' = [L EXCEPT ![i] = h]
    /\ blocks' = [blocks EXCEPT ![i] = newstateBlocks]
    /\ allocatedBytes' = allocatorCall(platform64, allocatedBytes, 0, newstateBlocks[1])
    /\ tpc' = [tpc EXCEPT ![i] = "insert"]
    /\ UNCHANGED <<proc, toLuaState, lastState, lastLSState, assemblies, nextAssembly,
                   deleteCount, closeCount, lastCall, nCalls, everClosed>>
    /\ UNCHANGED <<treg, platform64, loadVars, codecVars, traceVars, pathVars, markVars, scriptVars>>

\* toLuaState.insert(L, this), first half: the table is read
ThreadInsertRead(i) ==
    /\ tpc[i] = "insert"
    /\ treg' = [treg EXCEPT ![i] = toLuaState]
    /\ tpc' = [tpc EXCEPT ![i] = "insertWrite"]
    /\ UNCHANGED <<lifeVars, loadVars, codecVars, traceVars, pathVars, markVars,
                   allocVars, scriptVars>>

\* second half: the table with the new entry is written
ThreadInsertWrite(i) ==
    /\ tpc[i] = "insertWrite"
    /\ toLuaState' = registryInsert(treg[i], L[i], i)
    /\ tpc' = [tpc EXCEPT ![i] = "open"]
    /\ UNCHANGED <<proc, L, lastState, lastLSState, assemblies, nextAssembly,
                   deleteCount, closeCount, lastCall, nCalls, everClosed>>
    /\ UNCHANGED <<treg, loadVars, codecVars, traceVars, pathVars, markVars, allocVars, scriptVars>>

\* close() up to lua_close(L): assert(L) holds, the fast path pair is reset,
\* the assemblies are deleted, the VM is closed
ThreadCloseVM(i) ==
    /\ tpc[i] = "open"
    /\ closePrecondition(L[i])
    /\ IF lastState = L[i]
       THEN lastState' = NULL /\ lastLSState' = NULL
       ELSE UNCHANGED <<lastState, lastLSState>>
    /\ deleteCount' = deleteAssemblies(deleteCount, assemblies[i], 1)
    /\ closeCount' = [closeCount EXCEPT ![L[i]] = @ + 1]
    /\ allocatedBytes' = freeBlocks(platform64, allocatedBytes, blocks[i], 1)
    /\ blocks' = [blocks EXCEPT ![i] = noBlocks]
    /\ tpc' = [tpc EXCEPT ![i] = "remove"]
    /\ UNCHANGED <<proc, L, toLuaState, assemblies, nextAssembly, lastCall, nCalls,
                   everClosed>>
    /\ UNCHANGED <<treg, platform64, loadVars, codecVars, traceVars, pathVars, markVars, scriptVars>>

\* toLuaState.remove(L), first half: the table is read
ThreadRemoveRead(i) ==
    /\ tpc[i] = "remove"
    /\ treg' = [treg EXCEPT ![i] = toLuaState]
    /\ tpc' = [tpc EXCEPT ![i] = "removeWrite"]
    /\ UNCHANGED <<lifeVars, loadVars, codecVars, traceVars, pathVars, markVars,
                   allocVars, scriptVars>>

\* second half: the table without the entry is written; then L = NULL
ThreadRemoveWrite(i) ==
    /\ tpc[i] = "removeWrite"
    /\ toLuaState' = registryRemove(treg[i], L[i])
    /\ L' = [L EXCEPT ![i] = handleAfterClose(L[i])]
    /\ everClosed' = everClosed \cup {i}
    /\ tpc' = [tpc EXCEPT ![i] = "closed"]
    /\ UNCHANGED <<proc, lastState, lastLSState, assemblies, nextAssembly,
                   deleteCount, closeCount, lastCall, nCalls>>
    /\ UNCHANGED <<treg, loadVars, codecVars, traceVars, pathVars, markVars, allocVars, scriptVars>>

\* no instance is open and each has a thread about to open it
InitThreads ==
    /\ proc = "running"
    /\ L = [i \in Instance |-> NULL]
    /\ toLuaState = {}
    /\ lastState = NULL
    /\ lastLSState = NULL
    /\ assemblies = [i \in Instance |-> <<>>]
    /\ nextAssembly = 1
    /\ deleteCount = [a \in Assembly |-> 0]
    /\ closeCount = [h \in Handle \cup {NULL} |-> 0]
    /\ lastCall = [op |-> "new", inst |-> NULL]
    /\ nCalls = 0
    /\ everClosed = {}
    /\ wellKnown = NoReferences
    /\ typeCache = {}
    /\ LoadIdle
    /\ CodecIdle
    /\ TraceIdle
    /\ PathIdle
    /\ MarkIdle
    /\ AllocIdle
    /\ tpc = [i \in Instance |-> "start"]
    /\ treg = [i \in Instance |-> {}]
    /\ ScriptIdle

NextThreads ==
    \/ \E i \in Instance : ThreadNewState(i)
    \/ \E i \in Instance : ThreadInsertRead(i)
    \/ \E i \in Instance : ThreadInsertWrite(i)
    \/ \E i \in Instance : ThreadCloseVM(i)
    \/ \E i \in Instance : ThreadRemoveRead(i)
    \/ \E i \in Instance : ThreadRemoveWrite(i)

SpecThreads == InitThreads /\ [][NextThreads]_vars

-----------------------------------------------------------------------------
(* Properties of the registry under threads (SpecThreads) *)

\* C29: with each instance opened and closed by its own thread no registry
\* update is lost: an instance whose open() has returned is found under its
\* handle, an instance whose close() has returned has no entry, and a lookup
\* returns no instance whose VM has been closed.
C29_RegistryExclusive ==
    /\ \A i \in Instance : tpc[i] = "open" => registryLookup(toLuaState, L[i]) = i
    /\ \A i \in Instance : tpc[i] = "closed" => \A e \in toLuaState : e[2] # i
    /\ \A h \in Handle :
          registryLookup(toLuaState, h) # NULL =>
             tpc[registryLookup(toLuaState, h)] # "closed"

-----------------------------------------------------------------------------
(* The executable container: [u32 magic][u32 major][u32 minor][u32 size][payload] *)

LOOM_BINARY_ID            == 1280266061
LOOM_BINARY_VERSION_MAJOR == 2
LOOM_BINARY_VERSION_MINOR == 0
\* sizeof(unsigned int) * 4
HeaderSize                == 16

\* the bytes of the buffers that get packed
DataByte == {0, 1}

RECURSIVE SeqsUpTo(_, _)
SeqsUpTo(S, n) ==
    IF n = 0 THEN {<<>>}
    ELSE LET R == SeqsUpTo(S, n - 1) IN
         R \cup {Append(q, x) : q \in {r \in R : Len(r) = n - 1}, x \in S}

Buffers == SeqsUpTo(DataByte, MaxLen)

\* an unsigned int as utByteArray stores it: four bytes, low byte first
U32Bytes(v) == <<v % 256, (v \div 256) % 256, (v \div 65536) % 256, v \div 16777216>>

\* utByteArray::readUnsignedInt at byte offset off of mem
readUnsignedInt(mem, off) ==
    mem[off + 1] + 256 * mem[off + 2] + 65536 * mem[off + 3] + 16777216 * mem[off + 4]

(* The compressed stream.  A stream is a sequence of runs <<count, byte>>   *)
(* with count >= 1, the end marker 0 and a check byte over the data.        *)

CheckByte(data) == (1 + SeqSum(data)) % 251

\* the length of the run of equal bytes data starts with
RECURSIVE RunLength(_)
RunLength(data) ==
    IF Len(data) <= 1 THEN Len(data)
    ELSE IF data[2] = data[1] THEN 1 + RunLength(Tail(data)) ELSE 1

RECURSIVE Runs(_)
Runs(data) ==
    IF data = <<>> THEN <<>>
    ELSE LET n == RunLength(data) IN
         <<n, data[1]>> \o Runs(SubSeq(data, n + 1, Len(data)))

compress(data) == Runs(data) \o <<0, CheckByte(data)>>

\* inflate from position pos of the input in, out being what is written so
\* far into a destination of destLen bytes; read is the number of input
\* bytes looked at
RECURSIVE inflate(_, _, _, _)
inflate(in, pos, out, destLen) ==
    IF pos + 1 > Len(in) THEN [ret |-> "Z_DATA_ERROR", out |-> out, read |-> Len(in)]
    ELSE IF in[pos] = 0
         THEN IF in[pos + 1] = CheckByte(out)
              THEN [ret |-> "Z_OK", out |-> out, read |-> pos + 1]
              ELSE [ret |-> "Z_DATA_ERROR", out |-> out, read |-> pos + 1]
         ELSE IF Len(out) + in[pos] > destLen
              THEN [ret |-> "Z_BUF_ERROR", out |-> out, read |-> pos + 1]
              ELSE inflate(in, pos + 2,
                           out \o [k \in 1..in[pos] |-> in[pos + 1]], destLen)

\* uncompress(dest, &destLen, source, sourceLen): source is the memory from
\* the payload's first byte on, of which sourceLen bytes are handed in
uncompress(source, sourceLen, destLen) ==
    inflate(SubSeq(source, 1, sourceLen), 1, <<>>, destLen)

-----------------------------------------------------------------------------
(* openExecutableAssemblyBinary and its callers *)

\* the header gate without the major version line
headerMatchesNoMajor(mem) ==
    /\ readUnsignedInt(mem, 0) = LOOM_BINARY_ID
    /\ readUnsignedInt(mem, 8) = LOOM_BINARY_VERSION_MINOR

\* the three lmCheck lines on the header
headerMatches(mem) ==
    /\ readUnsignedInt(mem, 0) = LOOM_BINARY_ID
    /\ readUnsignedInt(mem, 4) = LOOM_BINARY_VERSION_MAJOR
    /\ readUnsignedInt(mem, 8) = LOOM_BINARY_VERSION_MINOR

\* the size check accepting a short result
readSizeAtMost(readSZ, sz) == readSZ <= sz

\* lmCheck(readSZ == sz, ...)
readSizeMatches(readSZ, sz) == readSZ = sz

\* the source length handed to uncompress: (uLong)sz
sourceLength(bufferSize, sz) == sz

\* sourceLen is the input length handed to uncompress, readEnd the offset
\* one past the last byte of memory that was read
Failed(z, n, sz, sourceLen, readEnd) ==
    [status |-> "FormatError", bytes |-> <<>>, zret |-> z, readSZ |-> n, sz |-> sz,
     sourceLen |-> sourceLen, readEnd |-> readEnd]

\* mem is the memory at the caller's buffer: the buffer, then what follows it
openExecutableAssemblyBinary(mem, bufferSize) ==
    IF ~headerMatches(mem) THEN Failed("none", 0, 0, 0, HeaderSize)
    ELSE LET sz   == readUnsignedInt(mem, 12)
             slen == sourceLength(bufferSize, sz)
             z    == uncompress(SubSeq(mem, HeaderSize + 1, Len(mem)), slen, sz)
             rend == HeaderSize + z.read
         IN IF z.ret # "Z_OK" THEN Failed(z.ret, Len(z.out), sz, slen, rend)
            ELSE IF ~readSizeMatches(Len(z.out), sz)
                 THEN Failed(z.ret, Len(z.out), sz, slen, rend)
            ELSE [status |-> "ok", bytes |-> z.out, zret |-> z.ret,
                  readSZ |-> Len(z.out), sz |-> sz, sourceLen |-> slen,
                  readEnd |-> rend]

\* what lies behind the buffer when the decoder reads past its end: any bytes
BytesBehind(buf) ==
    IF Len(buf) < HeaderSize THEN {<<>>}
    ELSE LET want == HeaderSize + sourceLength(Len(buf), readUnsignedInt(buf, 12)) IN
         IF want <= Len(buf) THEN {<<>>}
         ELSE {g \in SeqsUpTo(DataByte, want - Len(buf)) : Len(g) = want - Len(buf)}

\* decode, then on success load the assembly from the bytes and own it
DecodeAndLoad(op) ==
    /\ decoded.status = "none"
    /\ Call(op, 1)
    /\ \E g \in BytesBehind(buffer) :
          LET r == openExecutableAssemblyBinary(buffer \o g, Len(buffer)) IN
          /\ decoded' = r
          /\ IF r.status = "ok"
             THEN /\ proc' = proc
                  /\ assemblies' = [assemblies EXCEPT ![1] = Append(@, nextAssembly)]
                  /\ nextAssembly' = nextAssembly + 1
             ELSE /\ proc' = "fatal"
                  /\ UNCHANGED <<assemblies, nextAssembly>>
    /\ UNCHANGED <<L, toLuaState, lastState, lastLSState, deleteCount, closeCount,
                   everClosed, buffer>>
    /\ UNCHANGED <<loadVars, traceVars, pathVars, markVars, allocVars, threadVars, scriptVars>>

LoadExecutableAssemblyBinary == DecodeAndLoad("loadExecutableAssemblyBinary")

\* the file variant: LSMapFile hands the buffer, or maps nothing
LoadExecutableAssembly ==
    \/ DecodeAndLoad("loadExecutableAssembly")
    \/ /\ decoded.status = "none"
       /\ Call("loadExecutableAssembly", 1)
       /\ proc' = "assert"
       /\ UNCHANGED <<L, toLuaState, lastState, lastLSState, assemblies, nextAssembly,
                      deleteCount, closeCount, everClosed>>
       /\ UNCHANGED <<loadVars, codecVars, traceVars, pathVars, markVars, allocVars, threadVars, scriptVars>>

\* the container the build writes for data, with the header fields given
Container(magic, major, minor, sz, payload) ==
    U32Bytes(magic) \o U32Bytes(major) \o U32Bytes(minor) \o U32Bytes(sz) \o payload

EncodeContainer(data) ==
    Container(LOOM_BINARY_ID, LOOM_BINARY_VERSION_MAJOR, LOOM_BINARY_VERSION_MINOR,
              Len(data), compress(data))

\* a payload as compressed, cut short by a byte, or with its check byte off
Payloads(data) ==
    LET c == compress(data) IN
    {c, SubSeq(c, 1, Len(c) - 1), [c EXCEPT ![Len(c)] = (@ + 1) % 251]}

Containers ==
    {Container(magic, major, minor, sz, p) :
        magic \in {LOOM_BINARY_ID, LOOM_BINARY_ID + 1},
        major \in {LOOM_BINARY_VERSION_MAJOR, LOOM_BINARY_VERSION_MAJOR + 1},
        minor \in {LOOM_BINARY_VERSION_MINOR, LOOM_BINARY_VERSION_MINOR + 1},
        sz \in 0..(MaxLen + 1),
        p \in UNION {Payloads(data) : data \in Buffers}}

InitCodec ==
    /\ LifeIdle
    /\ LoadIdle
    /\ TraceIdle
    /\ PathIdle
    /\ buffer \in Containers
    /\ decoded = [status |-> "none", bytes |-> <<>>]
    /\ OthersIdle

NextCodec ==
    \/ LoadExecutableAssemblyBinary
    \/ LoadExecutableAssembly

SpecCodec == InitCodec /\ [][NextCodec]_vars

-----------------------------------------------------------------------------
(* Properties of the container decoder (SpecCodec) *)

ExpectedHeader == U32Bytes(LOOM_BINARY_ID) \o U32Bytes(LOOM_BINARY_VERSION_MAJOR)
                  \o U32Bytes(LOOM_BINARY_VERSION_MINOR)
\* magic, major or minor of the buffer is not the compiled-in constant
BadHeader    == SubSeq(buffer, 1, 12) # ExpectedHeader
DeclaredSize == SubSeq(buffer, 13, HeaderSize)
Payload      == SubSeq(buffer, HeaderSize + 1, Len(buffer))
\* a decode of the buffer has been run
Decoded      == decoded.status # "none"

\* the instance as it was before the load call
InstanceUntouched ==
    /\ L = [i \in Instance |-> IF i = 1 THEN 1 ELSE NULL]
    /\ toLuaState = {<<1, 1>>}
    /\ assemblies = [i \in Instance |-> IF i = 1 THEN <<1>> ELSE <<>>]
    /\ nextAssembly = 2
    /\ lastState = NULL /\ lastLSState = NULL

\* C6: decoding the container written for a buffer succeeds and yields the
\* buffer, whatever the length of its compressed payload.
C6_RoundTrip ==
    \A data \in Buffers :
       (buffer = EncodeContainer(data) /\ Decoded) =>
          (decoded.status = "ok" /\ decoded.bytes = data)

\* C7: with a magic id, major or minor version that differs from the
\* constant, the decoder hands back no bytes, no assembly is loaded and the
\* instance is as it was.
C7_HeaderGate ==
    (BadHeader /\ nCalls > 1) =>
       /\ decoded.status \in {"none", "FormatError"}
       /\ decoded.bytes = <<>>
       /\ proc \in {"fatal", "assert"}
       /\ Decoded => proc = "fatal"
       /\ InstanceUntouched

\* a container that is right but for its major version was refused
C7_Witness ==
    /\ decoded.status = "FormatError"
    /\ proc = "fatal"
    /\ \E data \in Buffers \ {<<>>} :
          /\ Len(compress(data)) <= Len(data)
          /\ buffer = Container(LOOM_BINARY_ID, LOOM_BINARY_VERSION_MAJOR + 1,
                                LOOM_BINARY_VERSION_MINOR, Len(data), compress(data))

\* C8: the decode fails whenever uncompress reports an error or the number
\* of bytes it produced is not the declared size, in particular for a
\* payload that decompresses to a size other than the declared one; on
\* success the output holds exactly the declared number of bytes.
C8_SizeGate ==
    (Decoded /\ ~BadHeader) =>
       /\ (decoded.zret # "Z_OK" \/ U32Bytes(decoded.readSZ) # DeclaredSize) =>
             (decoded.status = "FormatError" /\ proc = "fatal")
       /\ decoded.status = "ok" => U32Bytes(Len(decoded.bytes)) = DeclaredSize
       /\ \A data \in Buffers :
             (Payload = compress(data) /\ U32Bytes(Len(data)) # DeclaredSize) =>
                decoded.status = "FormatError"

\* declared one byte more than the payload decompresses to: uncompress
\* succeeded and the size check refused the result
C8_Witness ==
    /\ decoded.status = "FormatError"
    /\ decoded.zret = "Z_OK"
    /\ \E data \in Buffers \ {<<>>} :
          /\ buffer = Container(LOOM_BINARY_ID, LOOM_BINARY_VERSION_MAJOR,
                                LOOM_BINARY_VERSION_MINOR, Len(data) + 1, compress(data))
          /\ decoded.readSZ = Len(data)

\* C30: the decoder reads bytes of the caller's buffer only: the input
\* handed to uncompress is the remainder of the buffer behind the header,
\* whatever the declared size, and no byte at an offset of bufferSize or
\* above is read.
C30_ReadsWithinBuffer ==
    Decoded =>
       /\ decoded.readEnd <= Len(buffer)
       /\ ~BadHeader => decoded.sourceLen = Len(buffer) - HeaderSize

-----------------------------------------------------------------------------
(* The loader entry points: loadTypeAssembly and loadAssemblyJSON *)

\* number of assemblies loaded into the instance in a run
MaxLoads == 2

\* the call with assembly->bootstrap() made ahead of initializeLuaTypes
finalizeBootstrapFirst(def, table, tys, miss, mods, dels, tr, names) ==
    LET r1 == resolveLoop(def, table, tys, 1, tr) IN
    IF ~r1.ok
    THEN [ok |-> FALSE, types |-> tys, missing |-> miss, moduleTypes |-> mods,
          deleted |-> dels, trace |-> r1.trace, cTypeName |-> names]
    ELSE LET r2 == findIncomplete(def, tys, miss, FALSE, 1)
             r3 == IF r2.shrink
                   THEN compactLoop(tys, r2.missing, 1, 1, mods, dels, r1.trace)
                   ELSE [types |-> tys, moduleTypes |-> mods, deleted |-> dels,
                         trace |-> r1.trace]
             r4 == declareLuaTypes(def, table, r3.types, r2.missing, r3.trace, names)
         IN [ok          |-> r4.ok,
             types       |-> r3.types,
             missing     |-> r2.missing,
             moduleTypes |-> r3.moduleTypes,
             deleted     |-> r3.deleted,
             cTypeName   |-> r4.cTypeName,
             trace       |-> IF r4.ok
                             THEN initializeLuaTypes(r3.types, r2.missing,
                                                     Append(r4.trace,
                                                            <<"bootstrap", NULL>>))
                             ELSE r4.trace]

\* finalizeAssemblyLoad as one call: native resolution, missing-type
\* propagation, compaction, declare, initialize, bootstrap
finalizeAssemblyLoad(def, table, tys, miss, mods, dels, tr, names) ==
    LET r1 == resolveLoop(def, table, tys, 1, tr) IN
    IF ~r1.ok
    THEN [ok |-> FALSE, types |-> tys, missing |-> miss, moduleTypes |-> mods,
          deleted |-> dels, trace |-> r1.trace, cTypeName |-> names]
    ELSE LET r2 == findIncomplete(def, tys, miss, FALSE, 1)
             r3 == IF r2.shrink
                   THEN compactLoop(tys, r2.missing, 1, 1, mods, dels, r1.trace)
                   ELSE [types |-> tys, moduleTypes |-> mods, deleted |-> dels,
                         trace |-> r1.trace]
             r4 == declareLuaTypes(def, table, r3.types, r2.missing, r3.trace, names)
         IN [ok          |-> r4.ok,
             types       |-> r3.types,
             missing     |-> r2.missing,
             moduleTypes |-> r3.moduleTypes,
             deleted     |-> r3.deleted,
             cTypeName   |-> r4.cTypeName,
             trace       |-> IF r4.ok
                             THEN Append(initializeLuaTypes(r3.types, r2.missing,
                                                            r4.trace),
                                         <<"bootstrap", NULL>>)
                             ELSE r4.trace]

\* the condition guarding finalizeAssemblyLoad dropped
finalizeAlways(isCompiling) == TRUE

\* if (!isCompiling()) in loadAssemblyJSON
finalizeWhenNotCompiling(isCompiling) == ~isCompiling

\* one loader call on the parsed assembly in: beginAssemblyLoad, the parse,
\* cacheAssemblyTypes, finalizeAssemblyLoad when finalize holds,
\* endAssemblyLoad.  A failed lmAssert or LSError ends the process.
Load(op, in, finalize) ==
    /\ nextAssembly <= MaxLoads
    /\ Call(op, 1)
    /\ LET a == nextAssembly
           c == cacheAssemblyTypes(in.def, in.types, a, <<>>, wellKnown, typeCache)
           t1 == << <<"beginAssemblyLoad", NULL>>, <<"cacheAssemblyTypes", NULL>> >>
           f == IF c.ok /\ finalize
                THEN finalizeAssemblyLoad(in.def, nativeTypes, in.types, in.missing,
                                          Range(in.types), {},
                                          Append(t1, <<"finalizeAssemblyLoad", NULL>>),
                                          {})
                ELSE [ok |-> c.ok, types |-> in.types, missing |-> in.missing,
                      moduleTypes |-> Range(in.types), deleted |-> {},
                      trace |-> t1, cTypeName |-> {}]
       IN /\ asmDef' = in.def
          /\ missing0' = in.missing
          /\ ordinalTypes' = c.ord
          /\ wellKnown' = c.wellKnown
          /\ typeCache' = c.typeCache
          /\ types' = f.types
          /\ missing' = f.missing
          /\ moduleTypes' = f.moduleTypes
          /\ deletedTypes' = f.deleted
          /\ cTypeName' = f.cTypeName
          /\ trace' = IF f.ok THEN Append(f.trace, <<"endAssemblyLoad", NULL>>)
                      ELSE f.trace
          /\ pc' = IF ~f.ok THEN "fatal"
                   ELSE IF finalize THEN "ready" ELSE "cached"
          /\ proc' = IF f.ok THEN proc ELSE "fatal"
          /\ assemblies' = [assemblies EXCEPT ![1] = Append(@, a)]
          /\ nextAssembly' = a + 1
    /\ UNCHANGED <<L, toLuaState, lastState, lastLSState, deleteCount, closeCount,
                   everClosed>>
    /\ UNCHANGED <<nativeTypes, compiling>>
    /\ UNCHANGED <<codecVars, traceVars, pathVars, markVars, allocVars, threadVars, scriptVars>>

\* a system assembly: the well-known types, one of them at most left out
SystemDef(names) ==
    [typeID   |-> [k \in DOMAIN names |-> k],
     baseType |-> [k \in DOMAIN names |-> NULL],
     imports  |-> [k \in DOMAIN names |-> {}],
     native   |-> [k \in DOMAIN names |-> FALSE],
     managed  |-> [k \in DOMAIN names |-> FALSE],
     name     |-> names]

SystemInputs ==
    {[def |-> SystemDef(names), types |-> [k \in DOMAIN names |-> k], missing |-> {}] :
        names \in {SystemTypes}
                  \cup {SelectSeq(SystemTypes, LAMBDA x : x # n) : n \in WellKnownName}}

\* the ordinal IDs 1..N with one of them replaced
IdVariants  == {[IdentityIds EXCEPT ![j] = v] : j \in Type, v \in 0..(NumTypes + 1)}

\* an application assembly of NumTypes script types
AppDef(ids) ==
    [typeID |-> ids, baseType |-> [t \in Type |-> NULL],
     imports |-> [t \in Type |-> {}], native |-> NoneNative, managed |-> NoneNative,
     name |-> AppNames]

\* one whose first type is native and unmanaged
AppDefNative == [AppDef(IdentityIds) EXCEPT !.native = [t \in Type |-> t = 1]]

\* one whose second type imports the first
AppDefImport == [AppDef(IdentityIds) EXCEPT !.imports[2] = {1}]

\* one whose first type is native and whose last type imports the second
AppDefMixed == [AppDefNative EXCEPT !.imports[NumTypes] = {2}]

\* one whose first type is native and declared managed
AppDefManaged == [AppDefNative EXCEPT !.managed = [t \in Type |-> t = 1]]

\* the assemblies handed to the loaders
EntryInputs ==
    SystemInputs
    \cup {[def |-> AppDef(ids), types |-> TypeList, missing |-> {}] : ids \in IdVariants}
    \cup {[def |-> AppDefNative, types |-> TypeList, missing |-> {}],
          [def |-> AppDefImport, types |-> TypeList, missing |-> {1}],
          [def |-> AppDefMixed, types |-> TypeList, missing |-> {2}],
          [def |-> AppDefManaged, types |-> TypeList, missing |-> {}]}

LoadTypeAssembly == \E in \in EntryInputs : Load("loadTypeAssembly", in, FALSE)

LoadAssemblyJSON ==
    \E in \in EntryInputs :
       Load("loadAssemblyJSON", in, finalizeWhenNotCompiling(compiling))

\* instance 1 is open and has loaded nothing; the host has registered an
\* unmanaged binding for the first application type
InitEntry ==
    /\ proc = "running"
    /\ L = [i \in Instance |-> IF i = 1 THEN 1 ELSE NULL]
    /\ toLuaState = {<<1, 1>>}
    /\ lastState = NULL
    /\ lastLSState = NULL
    /\ assemblies = [i \in Instance |-> <<>>]
    /\ nextAssembly = 1
    /\ deleteCount = [a \in Assembly |-> 0]
    /\ closeCount = [h \in Handle \cup {NULL} |-> 0]
    /\ lastCall = [op |-> "open", inst |-> 1]
    /\ nCalls = 1
    /\ everClosed = {}
    /\ wellKnown = NoReferences
    /\ typeCache = {}
    /\ pc = "idle"
    /\ asmDef = AppDef(IdentityIds)
    /\ nativeTypes = [t \in Type |-> IF t = 1 THEN "unmanaged" ELSE "none"]
    /\ types = <<>>
    /\ missing = {}
    /\ missing0 = {}
    /\ ordinalTypes = <<>>
    /\ moduleTypes = {}
    /\ deletedTypes = {}
    /\ cTypeName = {}
    /\ trace = <<>>
    /\ compiling \in BOOLEAN
    /\ CodecIdle
    /\ TraceIdle
    /\ PathIdle
    /\ OthersIdle

NextEntry ==
    \/ LoadTypeAssembly
    \/ LoadAssemblyJSON

SpecEntry == InitEntry /\ [][NextEntry]_vars

-----------------------------------------------------------------------------
(* Properties of the loader entry points (SpecEntry) *)

\* a loader has been called on the assembly asmDef describes
Loaded == pc # "idle"
\* the type list handed to cacheAssemblyTypes and the ordinal IDs on it
CachedList == DOMAIN asmDef.typeID
CachedIds  == {getTypeID(asmDef, t) : t \in CachedList}
\* the IDs are 1..N, each carried by one type
ContiguousIds == CachedIds = 1..Cardinality(CachedList)

\* C14: caching a type list whose ordinal IDs are not exactly 1..N, an ID of
\* 0, an ID above N or an ID shared by two types, ends in a fatal error.
C14_NonContiguousFatal ==
    (Loaded /\ ~ContiguousIds) => (pc = "fatal" /\ proc = "fatal")

\* the seven names whose absence is fatal
RequiredName == WellKnownName \ {"system.Object"}
\* the full names of the types of the assembly handed to the loader
CachedNames == {getFullName(asmDef, t) : t \in CachedList}
\* the full names cached into the instance so far
FoundNames == {e[1] : e \in typeCache}
\* the assembly is the first one cached into the instance
FirstAssembly == nextAssembly = 2

\* C15: caching fails fatally when one of the seven required names has been
\* found in no type cached into the instance, for the first assembly when
\* the assembly lacks it; after a call that returns normally the seven
\* references are set; a first assembly lacking system.Object alone is cached
\* without error.
C15_WellKnownRequired ==
    Loaded =>
       /\ ~(RequiredName \subseteq FoundNames) => pc = "fatal"
       /\ (FirstAssembly /\ ~(RequiredName \subseteq CachedNames)) => pc = "fatal"
       /\ pc # "fatal" =>
             \A n \in RequiredName :
                /\ wellKnown[n] # NoType
                /\ wellKnown[n][1] \in Range(assemblies[1])
       /\ (FirstAssembly /\ CachedNames = RequiredName) =>
             (pc # "fatal" /\ wellKnown["system.Object"] = NoType)

\* the first assembly has every well-known type but system.Vector: fatal
C15_Witness ==
    /\ pc = "fatal"
    /\ FirstAssembly
    /\ CachedNames = WellKnownName \ {"system.Vector"}
    /\ \A n \in CachedNames : wellKnown[n] # NoType

\* the load skips finalization: loadTypeAssembly, or loadAssemblyJSON while
\* compiling
PartialLoad ==
    \/ lastCall.op = "loadTypeAssembly"
    \/ lastCall.op = "loadAssemblyJSON" /\ compiling

\* the steps of finalizeAssemblyLoad that leave an entry in the trace
FinalizeCalls ==
    Calls("finalizeAssemblyLoad") \cup Calls("resolveScriptType") \cup Calls("lmDelete")
    \cup Calls("declareClass") \cup Calls("validate") \cup Calls("LSError")
    \cup InitializeCalls

\* C19: a partial load caches the types and runs no step of the
\* finalization: the trace holds none, no type is flagged, removed or
\* deleted and none gets a host type name; a loadAssemblyJSON that is not
\* compiling runs finalizeAssemblyLoad once, after beginAssemblyLoad and the
\* caching and before endAssemblyLoad.
C19_PartialLoadSkipsFinalize ==
    Loaded =>
       /\ Cardinality(Calls("beginAssemblyLoad")) = 1
       /\ Cardinality(Calls("cacheAssemblyTypes")) = 1
       /\ PartialLoad =>
             /\ FinalizeCalls = {}
             /\ missing = missing0
             /\ Len(types) = Cardinality(CachedList)
             /\ moduleTypes = CachedList
             /\ deletedTypes = {}
             /\ cTypeName = {}
             /\ pc \in {"cached", "fatal"}
       /\ (~PartialLoad /\ pc # "fatal") =>
             /\ pc = "ready"
             /\ Cardinality(Calls("finalizeAssemblyLoad")) = 1
             /\ Cardinality(Calls("bootstrap")) = 1
             /\ \A b \in Calls("beginAssemblyLoad"), c \in Calls("cacheAssemblyTypes"),
                   f \in Calls("finalizeAssemblyLoad"), e \in Calls("endAssemblyLoad") :
                   b < c /\ c < f /\ f < e /\ e = Len(trace)
             /\ \A i \in FinalizeCalls, f \in Calls("finalizeAssemblyLoad"),
                   e \in Calls("endAssemblyLoad") : f <= i /\ i < e

\* loadAssemblyJSON while compiling left an assembly with a missing type and
\* an importer of it as parsed
C19_Witness ==
    /\ pc = "cached"
    /\ lastCall.op = "loadAssemblyJSON"
    /\ compiling
    /\ missing0 = {1}
    /\ 1 \in getImports(asmDef, 2)
    /\ missing = {1}
    /\ Len(types) = NumTypes
    /\ trace[Len(trace)][1] = "endAssemblyLoad"

\* the stage of finalizeAssemblyLoad a trace entry belongs to
StageRank(op) ==
    CASE op \in {"beginAssemblyLoad", "cacheAssemblyTypes"}          -> 0
      [] op = "finalizeAssemblyLoad"                                 -> 1
      [] op = "resolveScriptType"                                    -> 2
      [] op = "lmDelete"                                             -> 3
      [] op \in {"declareClass", "validate", "LSError"}              -> 4
      [] op \in {"cache", "initializeClass", "classinitializestatic"} -> 5
      [] op = "bootstrap"                                            -> 6
      [] op = "endAssemblyLoad"                                      -> 7

\* the load ran finalizeAssemblyLoad
Finalized == Loaded /\ Calls("finalizeAssemblyLoad") # {}

\* C21: finalizeAssemblyLoad runs its stages in order: resolveScriptType on
\* every native type of the list, flagged missing or not; the propagation,
\* whose result is what compaction deletes (every type flagged by the parse
\* and every type that imports a flagged one); then declare, then initialize
\* with the static initializers, and last the bootstrap, once, after the
\* static initializer of every type left in the list; a load that ends
\* fatally has run no bootstrap.
C21_StageOrder ==
    Finalized =>
       /\ \A i, j \in DOMAIN trace :
             i < j => StageRank(trace[i][1]) <= StageRank(trace[j][1])
       /\ \A t \in CachedList :
             CallCount("resolveScriptType", t)
                = IF isNativeOrStaticNative(asmDef, t) THEN 1 ELSE 0
       /\ missing0 \subseteq missing
       /\ \A t \in CachedList : getImports(asmDef, t) \cap missing # {} => t \in missing
       /\ {trace[i][2] : i \in Calls("lmDelete")} = missing
       /\ deletedTypes = missing
       /\ Range(types) = CachedList \ missing
       /\ pc = "ready" =>
             /\ Cardinality(Calls("bootstrap")) = 1
             /\ \A t \in Range(types) :
                   \E k \in Calls("classinitializestatic") :
                      /\ trace[k][2] = t
                      /\ \A b \in Calls("bootstrap") : k < b
       /\ pc = "fatal" => Calls("bootstrap") = {}

\* a native type was resolved, the type flagged by the parse and its
\* importer were deleted, the type left went through declare and initialize,
\* and the bootstrap ran
C21_Witness ==
    /\ pc = "ready"
    /\ Finalized
    /\ Calls("resolveScriptType") # {}
    /\ missing0 # {}
    /\ missing # missing0
    /\ Calls("validate") # {}
    /\ Calls("classinitializestatic") # {}
    /\ trace[Len(trace) - 1][1] = "bootstrap"

\* C36: after every cacheAssemblyTypes call the fast-access reference of a
\* well-known name and the typeCache entry of that name are the same Type
\* object, also when several assemblies cached into the instance carry a
\* type of that name.
C36_LookupsAgree ==
    \A n \in WellKnownName :
       wellKnown[n] # NoType =>
          /\ \E e \in typeCache : e[1] = n
          /\ \A e \in typeCache : e[1] = n => e[2] = wellKnown[n]

-----------------------------------------------------------------------------
(* Traceback capture: _getCurrentStack, traceback and triggerRuntimeError *)

\* number of MethodBase objects in the method-lookup table
NumMethods == 2
\* number of active frames of the VM
MaxFrames == 3
\* number of values on the VM's value stack at the report
MaxTop == 1

Method == 1..NumMethods
\* the methods that are native: MethodBase::isNative
NativeMethod == {1}

\* an active frame: a C function (currentline -1) or a script closure, and
\* the MethodBase its callable maps to in the method-lookup table, NULL when
\* the callable is not a key of the table
Frame == [cfunc : {TRUE}, method : Method \cup {NULL}, currentline : {-1}]
         \cup [cfunc : {FALSE}, method : Method \cup {NULL}, currentline : {1}]

Stacks == SeqsUpTo(Frame, MaxFrames)

\* lua_getinfo "S": the source of a frame
frameSource(f) == IF f.cfunc THEN "=[C]" ELSE "@script"

\* the rawget in the LSINDEXMETHODLOOKUP table
methodLookup(f) == f.method

isNative(mb) == mb \in NativeMethod

\* the wrapper test without the kind of the frame
skipWrapperAnyKind(cfunc, lastMethod, methodBase) == lastMethod = methodBase

\* if (cfunc && (lastMethod == methodBase)) continue;
skipWrapper(cfunc, lastMethod, methodBase) == cfunc /\ lastMethod = methodBase

\* the stackinfo pushed for frame f
stackinfoOf(f) ==
    [methodBase |-> methodLookup(f),
     source     |-> IF isNative(methodLookup(f)) THEN "[NATIVE]" ELSE frameSource(f),
     linenumber |-> IF f.currentline = -1 THEN 0 ELSE f.currentline]

\* the walk ending at the first frame whose callable is not in the table
RECURSIVE walkStackUntilUnknown(_, _, _, _)
walkStackUntilUnknown(frames, stackFrame, lastMethod, stack) ==
    IF stackFrame + 1 > Len(frames) THEN stack
    ELSE LET f == frames[stackFrame + 1] IN
         IF methodLookup(f) = NULL
         THEN stack
         ELSE IF skipWrapper(f.cfunc, lastMethod, methodLookup(f))
              THEN walkStackUntilUnknown(frames, stackFrame + 1, lastMethod, stack)
              ELSE walkStackUntilUnknown(frames, stackFrame + 1, methodLookup(f),
                                         Append(stack, stackinfoOf(f)))

\* the while (true) loop from frame index stackFrame on; lua_getstack fails
\* past the last active frame
RECURSIVE walkStack(_, _, _, _)
walkStack(frames, stackFrame, lastMethod, stack) ==
    IF stackFrame + 1 > Len(frames) THEN stack
    ELSE LET f == frames[stackFrame + 1] IN
         IF methodLookup(f) = NULL
         THEN walkStack(frames, stackFrame + 1, lastMethod, stack)
         ELSE IF skipWrapper(f.cfunc, lastMethod, methodLookup(f))
              THEN walkStack(frames, stackFrame + 1, lastMethod, stack)
              ELSE walkStack(frames, stackFrame + 1, methodLookup(f),
                             Append(stack, stackinfoOf(f)))

getCurrentStack(frames, stack) == walkStack(frames, 0, NULL, stack)

\* traceback(L): the error handler installed as __ls_traceback; msg is the
\* error value when it is a string, "" otherwise
Traceback(msg) ==
    /\ Call("traceback", 1)
    /\ proc' = proc
    /\ tracemessage' = msg
    /\ tracestack' = getCurrentStack(callStack, <<>>)
    /\ UNCHANGED <<callStack, errlog>>
    /\ UNCHANGED <<L, toLuaState, lastState, lastLSState, assemblies, nextAssembly,
                   deleteCount, closeCount, everClosed>>
    /\ UNCHANGED <<loadVars, codecVars, pathVars, markVars, allocVars, threadVars, scriptVars>>

\* dumpLuaStack: the count, one line for each value, an empty line
dumpLuaStack(top) ==
    << <<"dump", "Total in stack">> >> \o [i \in 1..top |-> <<"dump", "value">>]
    \o << <<"dump", "">> >>

\* utStack::peek(offs): the element offs below the top
peek(stack, offs) == stack[Len(stack) - offs]

\* the loop printing one line for each entry of the trace stack
stackLines(stack) ==
    [k \in 1..Len(stack) |-> <<"frame", peek(stack, Len(stack) - (k - 1) - 1)>>]

\* the report with the call trace logged ahead of the message
runtimeErrorReportTraceFirst(top, tmsg, stack) ==
    << <<"header", "=====================">>,
       <<"header", "=   RUNTIME ERROR   =">>,
       <<"header", "=====================">> >>
    \o dumpLuaStack(top)
    \o << <<"stacktrace", "Stacktrace:">> >>
    \o stackLines(stack)
    \o << <<"message", "buff">> >>
    \o (IF tmsg # "" THEN << <<"tracemessage", tmsg>> >> ELSE <<>>)

\* what triggerRuntimeError logs before LSError
runtimeErrorReport(top, tmsg, stack) ==
    << <<"header", "=====================">>,
       <<"header", "=   RUNTIME ERROR   =">>,
       <<"header", "=====================">> >>
    \o dumpLuaStack(top)
    \o << <<"message", "buff">> >>
    \o (IF tmsg # "" THEN << <<"tracemessage", tmsg>> >> ELSE <<>>)
    \o << <<"stacktrace", "Stacktrace:">> >>
    \o stackLines(stack)

\* LSError: logs its message and ends the process
LSError(log, msg) == [errlog |-> Append(log, <<"LSError", msg>>), proc |-> "fatal"]

\* the report capturing the stack whether or not a trace is held
TriggerRuntimeErrorRecapture ==
    /\ Call("triggerRuntimeError", 1)
    /\ \E top \in 0..MaxTop :
          LET stack == getCurrentStack(callStack, <<>>)
              r == LSError(errlog \o runtimeErrorReport(top, tracemessage, stack),
                           "Fatal Runtime Error")
          IN /\ tracestack' = stack
             /\ errlog' = r.errlog
             /\ proc' = r.proc
    /\ tracemessage' = ""
    /\ UNCHANGED callStack
    /\ UNCHANGED <<L, toLuaState, lastState, lastLSState, assemblies, nextAssembly,
                   deleteCount, closeCount, everClosed>>
    /\ UNCHANGED <<loadVars, codecVars, pathVars, markVars, allocVars, threadVars, scriptVars>>

\* triggerRuntimeError(format, ...): the report, then LSError
TriggerRuntimeError ==
    /\ Call("triggerRuntimeError", 1)
    /\ \E top \in 0..MaxTop :
          LET stack == IF tracestack = <<>>
                       THEN getCurrentStack(callStack, tracestack)
                       ELSE tracestack
              r == LSError(errlog \o runtimeErrorReport(top, tracemessage, stack),
                           "Fatal Runtime Error")
          IN /\ tracestack' = stack
             /\ errlog' = r.errlog
             /\ proc' = r.proc
    /\ tracemessage' = ""
    /\ UNCHANGED callStack
    /\ UNCHANGED <<L, toLuaState, lastState, lastLSState, assemblies, nextAssembly,
                   deleteCount, closeCount, everClosed>>
    /\ UNCHANGED <<loadVars, codecVars, pathVars, markVars, allocVars, threadVars, scriptVars>>

InitTrace ==
    /\ LifeIdle
    /\ LoadIdle
    /\ CodecIdle
    /\ callStack \in Stacks
    /\ tracestack = <<>>
    /\ tracemessage = ""
    /\ errlog = <<>>
    /\ PathIdle
    /\ OthersIdle

NextTrace ==
    \/ \E msg \in {"", "error"} : Traceback(msg)
    \/ TriggerRuntimeError

SpecTrace == InitTrace /\ [][NextTrace]_vars

-----------------------------------------------------------------------------
(* Properties of the traceback capture (SpecTrace) *)

\* the frame levels (1 = innermost) whose callable is in the lookup table
Resolved == {j \in DOMAIN callStack : callStack[j].method # NULL}
\* the nearest resolved level inside level j, 0 when there is none
InnerResolved(j) ==
    IF \E i \in Resolved : i < j
    THEN CHOOSE i \in Resolved : i < j /\ \A h \in Resolved : h < j => h <= i
    ELSE 0
\* level j resolves to the MethodBase of the resolved frame next inside it
SameAsInner(j) ==
    /\ j \in Resolved
    /\ InnerResolved(j) # 0
    /\ callStack[InnerResolved(j)].method = callStack[j].method
\* a capture of the stack has been made
Captured == lastCall.op \in {"traceback", "triggerRuntimeError"}

\* C12 as stated: a stack of two frames that resolve to the same MethodBase
\* is recorded as one frame, whatever the kinds of the two frames.
C12_CollapseAnyKind ==
    (Captured /\ Len(callStack) = 2 /\ SameAsInner(2)) => Len(tracestack) = 1

\* the levels the walk records: a resolved frame is left out exactly when it
\* is a C function resolving to the MethodBase of the resolved frame inside it
Recorded == {j \in Resolved : ~(callStack[j].cfunc /\ SameAsInner(j))}

\* C12 amended: of two adjacent frames resolving to the same MethodBase the
\* outer one is left out of the trace exactly when it is a C function; an
\* outer script closure is recorded as a frame of its own.  The trace is the
\* recorded levels in walk order.
C12_CollapseOuterCFunction ==
    Captured =>
       /\ Len(tracestack) = Cardinality(Recorded)
       /\ \A j \in Recorded :
             tracestack[Cardinality({i \in Recorded : i <= j})].methodBase
                = callStack[j].method
       /\ \A j \in DOMAIN callStack \ {1} :
             (SameAsInner(j) /\ InnerResolved(j) = j - 1) =>
                (j \in Recorded <=> ~callStack[j].cfunc)

\* a script closure called through its C wrapper: two frames, one entry; and
\* the same two frames the other way round would give two
C12_Witness ==
    /\ Captured
    /\ Len(callStack) = 2
    /\ SameAsInner(2)
    /\ ~callStack[1].cfunc /\ callStack[2].cfunc
    /\ Len(tracestack) = 1

\* the place of a kind of line in the report
ReportRank(kind) ==
    CASE kind = "header"       -> 1
      [] kind = "dump"         -> 2
      [] kind = "message"      -> 3
      [] kind = "tracemessage" -> 4
      [] kind = "stacktrace"   -> 5
      [] kind = "frame"        -> 6
      [] kind = "LSError"      -> 7
\* the indices of the lines of a kind
Lines(kind) == {i \in DOMAIN errlog : errlog[i][1] = kind}

\* the header, the stack dump, the message and the call trace were logged,
\* in that order, the trace being the captured one, and LSError came last
ReportInOrder ==
    /\ \A i, j \in DOMAIN errlog :
          i < j => ReportRank(errlog[i][1]) <= ReportRank(errlog[j][1])
    /\ \E i \in Lines("header") : errlog[i][2] = "=   RUNTIME ERROR   ="
    /\ Lines("dump") # {}
    /\ Cardinality(Lines("message")) = 1
    /\ Cardinality(Lines("stacktrace")) = 1
    /\ Cardinality(Lines("frame")) = Len(tracestack)
    /\ \A k \in DOMAIN tracestack :
          \E i \in Lines("frame") :
             /\ errlog[i][2] = tracestack[k]
             /\ Cardinality({h \in Lines("frame") : h <= i}) = k
    /\ Lines("LSError") = {Len(errlog)}

\* C17: a call of triggerRuntimeError logs the header, the stack dump, the
\* message and the call trace in that order and ends the process: no step
\* follows it.
C17_ReportThenTerminate ==
    /\ [](lastCall.op = "triggerRuntimeError" => (proc = "fatal" /\ ReportInOrder))
    /\ [][lastCall.op # "triggerRuntimeError"]_vars

\* a report with a trace message and a trace of two frames at least
C17_Witness ==
    /\ lastCall.op = "triggerRuntimeError"
    /\ proc = "fatal"
    /\ Lines("tracemessage") # {}
    /\ Len(tracestack) >= 2
    /\ Cardinality(Lines("frame")) = Len(tracestack)

\* the entry a recorded level gives: its MethodBase, "[NATIVE]" for a native
\* method and the frame's source otherwise, line 0 for a frame without a
\* current line
EntryOfLevel(j) ==
    [methodBase |-> callStack[j].method,
     source     |-> IF callStack[j].method \in NativeMethod THEN "[NATIVE]"
                    ELSE IF callStack[j].cfunc THEN "=[C]" ELSE "@script",
     linenumber |-> IF callStack[j].cfunc THEN 0 ELSE 1]
\* C31: the walk goes through the active frames from the innermost to the
\* outermost one and ends past the last of them; every frame whose callable
\* is in the method-lookup table gives one entry, in that order, save the
\* collapsed wrappers, and a frame whose callable is not in the table gives
\* none and does not end the walk.
C31_WalkRecordsResolved ==
    Captured =>
       LET res == Resolved
           rec == Recorded
       IN /\ Len(tracestack) = Cardinality(rec)
          /\ \A j \in rec :
                tracestack[Cardinality({i \in rec : i <= j})] = EntryOfLevel(j)
          /\ \A j \in res \ rec : callStack[j].cfunc /\ SameAsInner(j)
          /\ \A k \in DOMAIN tracestack : tracestack[k].methodBase # NULL
          /\ (res = {} => tracestack = <<>>)

\* three active frames, the middle one VM-internal: the frames on both sides
\* of it are recorded, the outermost frame last
C31_Witness ==
    /\ lastCall.op = "traceback"
    /\ Len(callStack) = 3
    /\ Resolved = {1, 3}
    /\ callStack[1].method # callStack[3].method
    /\ Len(tracestack) = 2
    /\ tracestack[1].methodBase = callStack[1].method
    /\ tracestack[2].methodBase = callStack[3].method

-----------------------------------------------------------------------------
(* The VM running between a capture and the report (SpecFault) *)

\* script code is entered: the call of f becomes the innermost active frame
VMEnter(f) ==
    /\ Call("enter", 1)
    /\ Len(callStack) < MaxFrames
    /\ callStack' = <<f>> \o callStack
    /\ UNCHANGED <<proc, tracestack, tracemessage, errlog>>
    /\ UNCHANGED <<L, toLuaState, lastState, lastLSState, assemblies, nextAssembly,
                   deleteCount, closeCount, everClosed>>
    /\ UNCHANGED <<loadVars, codecVars, pathVars, markVars, allocVars, threadVars, scriptVars>>

\* the k innermost frames are left: they return, or the protected call that
\* holds them fails and the VM unwinds to it after its error handler ran
VMUnwind(k) ==
    /\ proc = "running"
    /\ k \in 1..Len(callStack)
    /\ callStack' = SubSeq(callStack, k + 1, Len(callStack))
    /\ lastCall' = [op |-> "unwind", inst |-> 1]
    /\ UNCHANGED <<proc, nCalls, tracestack, tracemessage, errlog>>
    /\ UNCHANGED <<L, toLuaState, lastState, lastLSState, assemblies, nextAssembly,
                   deleteCount, closeCount, everClosed>>
    /\ UNCHANGED <<loadVars, codecVars, pathVars, markVars, allocVars, threadVars, scriptVars>>

\* the host outside the VM, no trace held
InitFault ==
    /\ LifeIdle
    /\ LoadIdle
    /\ CodecIdle
    /\ TraceIdle
    /\ PathIdle
    /\ OthersIdle

NextFault ==
    \/ \E f \in Frame : VMEnter(f)
    \/ \E k \in 1..MaxFrames : VMUnwind(k)
    \/ \E msg \in {"", "error"} : Traceback(msg)
    \/ TriggerRuntimeError

SpecFault == InitFault /\ [][NextFault]_vars

-----------------------------------------------------------------------------
(* Properties of the report after the stack has changed (SpecFault) *)

\* the step a call of triggerRuntimeError makes
ReportStep ==
    /\ proc = "running"
    /\ proc' = "fatal"
    /\ lastCall'.op = "triggerRuntimeError"
\* the frame lines of the log, in the order logged
FrameLines(log) ==
    LET idx == {i \in DOMAIN log : log[i][1] = "frame"}
    IN [k \in 1..Cardinality(idx) |->
           log[CHOOSE i \in idx : Cardinality({h \in idx : h <= i}) = k][2]]

\* C32: triggerRuntimeError captures the stack of the moment of the report
\* exactly when the trace stack is empty; a trace that traceback() captured
\* is printed as it was captured and the stack is not walked again.
C32_LazyCapture ==
    [][ReportStep =>
          /\ (tracestack = <<>> => tracestack' = getCurrentStack(callStack, <<>>))
          /\ (tracestack # <<>> => tracestack' = tracestack)
          /\ FrameLines(errlog') = tracestack'
          /\ callStack' = callStack]_vars

\* a report after the failed protected call has been unwound: the trace
\* printed is the one traceback() captured, which the stack of the moment
\* of the report would not give
C32_Witness ==
    /\ lastCall.op = "triggerRuntimeError"
    /\ proc = "fatal"
    /\ tracestack # <<>>
    /\ tracestack # getCurrentStack(callStack, <<>>)
    /\ FrameLines(errlog) = tracestack

\* C35: a report raised by the host while script code entered since the last
\* capture is running, no traceback() having run for it, prints the frames
\* active at the report, never a trace captured for an earlier error.
C35_TraceOfReportedFault ==
    [][(ReportStep /\ lastCall.op = "enter") =>
          FrameLines(errlog') = getCurrentStack(callStack, <<>>)]_vars

-----------------------------------------------------------------------------
(* VectorTextEditor (feathers.text): the text setter *)

\* length of the strings handed to the text setter
MaxText == 3

\* the characters of the strings: two letters, tab, newline, carriage return
TextChar == {"a", "b", "\t", "\n", "\r"}
Texts == SeqsUpTo(TextChar, MaxText)
\* the values of restrict
Restricts == {<<>>, <<"a">>, <<"b", "a">>}
\* the values of maxChars
MaxCharsValues == (0 - 1)..MaxText

\* String.indexOf on a single character: its first place, from 0, or -1
indexOf(s, c) ==
    IF \E k \in DOMAIN s : s[k] = c
    THEN (CHOOSE k \in DOMAIN s : s[k] = c /\ \A h \in 1..(k - 1) : s[h] # c) - 1
    ELSE 0 - 1
\* String.substring(from, to): the characters from..to-1
substring(s, from, to) == SubSeq(s, from + 1, to)
\* String.substr(start): the characters from start on
substrFrom(s, start) == SubSeq(s, start + 1, Len(s))
\* String.substr(0, len): the first len characters
substr(s, len) == SubSeq(s, 1, IF len < Len(s) THEN len ELSE Len(s))

\* var _localRestrict = "\t\n\r"
localRestrict == <<"\t", "\n", "\r">>

\* the loop without the i-- after a splice
RECURSIVE restrictLoopNoStepBack(_, _, _, _)
restrictLoopNoStepBack(v, i, rs, n) ==
    IF ~(i < Len(v)) THEN [v |-> v, rounds |-> n]
    ELSE LET curChar == v[i + 1] IN
         IF indexOf(rs, curChar) = 0 - 1 /\ indexOf(localRestrict, curChar) = 0 - 1
         THEN restrictLoopNoStepBack(v, i + 1, rs, n + 1)
         ELSE restrictLoopNoStepBack(substring(v, 0, i) \o substrFrom(v, i + 1),
                                     i + 1, rs, n + 1)

\* for (i = 0; i < v.length; i++): a character of neither string is passed
\* over; any other is spliced out and i stepped back before the i++
RECURSIVE restrictLoop(_, _, _, _)
restrictLoop(v, i, rs, n) ==
    IF ~(i < Len(v)) THEN [v |-> v, rounds |-> n]
    ELSE LET curChar == v[i + 1] IN
         IF indexOf(rs, curChar) = 0 - 1 /\ indexOf(localRestrict, curChar) = 0 - 1
         THEN restrictLoop(v, i + 1, rs, n + 1)
         ELSE restrictLoop(substring(v, 0, i) \o substrFrom(v, i + 1),
                           (i - 1) + 1, rs, n + 1)

\* set text(v): the loop, then the cut to maxChars; what is stored
setText(v, rs, mc) ==
    LET r == restrictLoop(v, 0, rs, 0) IN
    IF Len(r.v) > mc /\ mc > 0 THEN substr(r.v, mc) ELSE r.v

\* a script-side call: no call of the VM wrapper is made with it
ScriptCall(op) ==
    /\ proc = "running"
    /\ lastCall' = [op |-> op, inst |-> NULL]
    /\ UNCHANGED <<proc, nCalls, L, toLuaState, lastState, lastLSState, assemblies,
                   nextAssembly, deleteCount, closeCount, everClosed>>
    /\ UNCHANGED <<loadVars, codecVars, traceVars, pathVars, markVars, allocVars,
                   threadVars>>

focusVars == <<hasIMEFocus, imeAttached, caretChild, currentEditor, isEditable,
               editorLog>>

\* text = v from outside the editor, v being textArg
SetText ==
    /\ ScriptCall("setText")
    /\ text' = setText(textArg, restrict, maxChars)
    /\ UNCHANGED <<focusVars, textArg, restrict, maxChars, jsonVars>>

\* an editor whose restrict and maxChars have been set, about to be handed
\* a string
InitText ==
    /\ LifeIdle
    /\ LoadIdle
    /\ CodecIdle
    /\ TraceIdle
    /\ PathIdle
    /\ MarkIdle
    /\ AllocIdle
    /\ ThreadIdle
    /\ JsonIdle
    /\ hasIMEFocus = FALSE
    /\ imeAttached = FALSE
    /\ caretChild = FALSE
    /\ currentEditor = "null"
    /\ isEditable = TRUE
    /\ editorLog = <<>>
    /\ text = <<>>
    /\ restrict \in Restricts
    /\ maxChars \in MaxCharsValues
    /\ textArg \in Texts

NextText == SetText

SpecText == InitText /\ [][NextText]_vars

-----------------------------------------------------------------------------
(* Properties of the text setter (SpecText) *)

\* the characters the setter takes out
Banned == Range(restrict) \cup {"\t", "\n", "\r"}
\* the input without them, the rest in its order
Kept(v) == SelectSeq(v, LAMBDA c : c \notin Banned)

\* C38: the stored text is the input without its tabs, newlines, carriage
\* returns and characters of restrict, the other characters in their order,
\* cut to its first maxChars characters when maxChars > 0 and not cut when
\* maxChars <= 0; the loop ends, after one round for each character of the
\* input.
C38_TextFiltered ==
    lastCall.op = "setText" =>
       /\ maxChars > 0 =>
             text = [k \in 1..(IF Len(Kept(textArg)) < maxChars
                               THEN Len(Kept(textArg)) ELSE maxChars)
                       |-> Kept(textArg)[k]]
       /\ maxChars <= 0 => text = Kept(textArg)
       /\ restrictLoop(textArg, 0, restrict, 0).rounds = Len(textArg)

\* two characters to take out in a row, the first one of restrict, the second
\* a tab, then a character that stays, under maxChars 1
C38_Witness ==
    /\ lastCall.op = "setText"
    /\ Len(textArg) = 3
    /\ textArg[1] \in Range(restrict)
    /\ textArg[2] = "\t"
    /\ textArg[3] \notin Banned
    /\ maxChars = 1
    /\ text = <<textArg[3]>>

-----------------------------------------------------------------------------
(* VectorTextEditor: focus, the IME and the keyboard events (SpecEditor) *)

\* the focus side of the editor: the flag, the IME attachment, the caret
\* quad, and the calls and events made so far
focusState ==
    [hasIMEFocus |-> hasIMEFocus, imeAttached |-> imeAttached,
     caretChild |-> caretChild, log |-> editorLog]

\* setFocus() without its test of the flag
setFocusUnguarded(st) ==
    [hasIMEFocus |-> TRUE, imeAttached |-> TRUE, caretChild |-> TRUE,
     log |-> st.log \o <<"attachWithIME", "FOCUS_IN">>]

\* setFocus(): attachWithIME, addChild(_caretQuad), the flag, FOCUS_IN
setFocus(st) ==
    IF ~st.hasIMEFocus
    THEN [hasIMEFocus |-> TRUE, imeAttached |-> TRUE, caretChild |-> TRUE,
          log |-> st.log \o <<"attachWithIME", "FOCUS_IN">>]
    ELSE st

\* clearFocus(): detachWithIME, the flag, removeChild(_caretQuad), FOCUS_OUT
clearFocus(st) ==
    IF st.hasIMEFocus
    THEN [hasIMEFocus |-> FALSE, imeAttached |-> FALSE, caretChild |-> FALSE,
          log |-> st.log \o <<"detachWithIME", "FOCUS_OUT">>]
    ELSE st

\* the focus side becomes st
FocusBecomes(st) ==
    /\ hasIMEFocus' = st.hasIMEFocus
    /\ imeAttached' = st.imeAttached
    /\ caretChild' = st.caretChild
    /\ editorLog' = st.log

\* a call on the editor: nothing of the VM wrapper changes
EditorCall(op) ==
    /\ Call(op, NULL)
    /\ UNCHANGED <<proc, L, toLuaState, lastState, lastLSState, assemblies,
                   nextAssembly, deleteCount, closeCount, everClosed>>
    /\ UNCHANGED <<loadVars, codecVars, traceVars, pathVars, markVars, allocVars,
                   threadVars, jsonVars>>

SetFocus ==
    /\ EditorCall("setFocus")
    /\ FocusBecomes(setFocus(focusState))
    /\ UNCHANGED <<currentEditor, isEditable, text, restrict, maxChars, textArg>>

ClearFocus ==
    /\ EditorCall("clearFocus")
    /\ FocusBecomes(clearFocus(focusState))
    /\ UNCHANGED <<currentEditor, isEditable, text, restrict, maxChars, textArg>>

\* handleInsert(inText, length): the IME delivers inText
HandleInsert(inText) ==
    /\ EditorCall("handleInsert")
    /\ IF ~isEditable
       THEN UNCHANGED <<hasIMEFocus, imeAttached, caretChild, editorLog, text, textArg>>
       ELSE /\ FocusBecomes(IF inText = <<"\n">> THEN clearFocus(focusState)
                            ELSE focusState)
            /\ textArg' = text \o inText
            /\ text' = setText(text \o inText, restrict, maxChars)
    /\ UNCHANGED <<currentEditor, isEditable, restrict, maxChars>>

\* onAppEvent(type, payload): payload the height of the OS keyboard
OnAppEvent(type, payload) ==
    /\ EditorCall("onAppEvent")
    /\ IF type = "KEYBOARD_RESIZE"
       THEN IF payload = 0
            THEN IF currentEditor = "this" /\ hasIMEFocus
                 THEN /\ FocusBecomes(clearFocus(focusState))
                      /\ currentEditor' = "null"
                 ELSE UNCHANGED <<hasIMEFocus, imeAttached, caretChild, editorLog,
                                  currentEditor>>
            ELSE IF hasIMEFocus
                 THEN /\ currentEditor' = "this"
                      /\ UNCHANGED <<hasIMEFocus, imeAttached, caretChild, editorLog>>
                 ELSE UNCHANGED <<hasIMEFocus, imeAttached, caretChild, editorLog,
                                  currentEditor>>
       ELSE UNCHANGED <<hasIMEFocus, imeAttached, caretChild, editorLog, currentEditor>>
    /\ UNCHANGED <<isEditable, text, restrict, maxChars, textArg>>

\* isEditable = value
SetIsEditable(value) ==
    /\ EditorCall("setIsEditable")
    /\ isEditable' = value
    /\ UNCHANGED <<hasIMEFocus, imeAttached, caretChild, editorLog, currentEditor,
                   text, restrict, maxChars, textArg>>

InitEditor ==
    /\ LifeIdle
    /\ LoadIdle
    /\ CodecIdle
    /\ TraceIdle
    /\ PathIdle
    /\ OthersIdle

NextEditor ==
    \/ SetFocus
    \/ ClearFocus
    \/ \E inText \in {<<"a">>, <<"\n">>} : HandleInsert(inText)
    \/ \E type \in {"KEYBOARD_RESIZE", "other"}, payload \in {0, 1} :
          OnAppEvent(type, payload)
    \/ \E value \in BOOLEAN : SetIsEditable(value)

SpecEditor == InitEditor /\ [][NextEditor]_vars

-----------------------------------------------------------------------------
(* Properties of the focus state machine (SpecEditor) *)

\* the calls on the IME delegate, and the focus events, each in order
ImeCalls    == SelectSeq(editorLog, LAMBDA x : x \in {"attachWithIME", "detachWithIME"})
FocusEvents == SelectSeq(editorLog, LAMBDA x : x \in {"FOCUS_IN", "FOCUS_OUT"})
\* q is first, second, first, second, ...
Alternates(q, first, second) ==
    \A k \in DOMAIN q : q[k] = IF k % 2 = 1 THEN first ELSE second

\* C37: after every call the flag _hasIMEFocus is set exactly when the IME
\* is attached and the caret quad is a child; a setFocus() while focused and
\* a clearFocus() while not focused change nothing; the attach and detach
\* calls alternate, an attach first, and so do FOCUS_IN and FOCUS_OUT.
C37_FocusStateMachine ==
    /\ [](/\ hasIMEFocus <=> (imeAttached /\ caretChild)
          /\ imeAttached <=> caretChild
          /\ Alternates(ImeCalls, "attachWithIME", "detachWithIME")
          /\ Alternates(FocusEvents, "FOCUS_IN", "FOCUS_OUT")
          /\ Len(ImeCalls) = Len(FocusEvents))
    /\ [][(/\ nCalls' = nCalls + 1
           /\ \/ lastCall'.op = "setFocus" /\ hasIMEFocus
              \/ lastCall'.op = "clearFocus" /\ ~hasIMEFocus)
          => UNCHANGED editorVars]_vars

\* focus taken, given up, taken again and ended by the insert of a newline:
\* two attach/detach pairs, and the newline is not in the text
C37_Witness ==
    /\ lastCall.op = "handleInsert"
    /\ textArg # <<>> /\ textArg[Len(textArg)] = "\n"
    /\ ~hasIMEFocus
    /\ Len(ImeCalls) = 4
    /\ Len(FocusEvents) = 4

-----------------------------------------------------------------------------
(* JSON.stringify (system.JSON): the traversal and its visited list *)

\* number of objects on the heap
NumObjects == 2
\* number of elements, entries or fields of an object
MaxFields == 2

Obj == 1..NumObjects
\* a value that is a String, a Number or a Boolean
Prim == 0 - 1
\* what an element, an entry or a field holds
Value == Obj \cup {NULL, Prim}

\* the types of the objects: a class with fields, a Vector, a Dictionary
\* that casts to Dictionary.<String, Object> and one that does not
ObjType == {[name |-> "app.Thing", stringKeys |-> FALSE],
            [name |-> "system.Vector", stringKeys |-> FALSE],
            [name |-> "system.Dictionary", stringKeys |-> TRUE],
            [name |-> "system.Dictionary", stringKeys |-> FALSE]}

\* an object: its type and its elements, entry values or field values in
\* the order the loops meet them
Heaps == [Obj -> {[type |-> t, values |-> vs] :
                     t \in ObjType, vs \in SeqsUpTo(Value, MaxFields)}]

\* Vector.indexOf: the first place of o, from 0, or -1
vectorIndexOf(vec, o) ==
    IF \E k \in DOMAIN vec : vec[k] = o
    THEN (CHOOSE k \in DOMAIN vec : vec[k] = o /\ \A h \in 1..(k - 1) : vec[h] # o) - 1
    ELSE 0 - 1

\* Vector.splice(index, 1): the element at index, if there is one, removed
splice(vec, index) ==
    IF index < Len(vec)
    THEN SubSeq(vec, 1, index) \o SubSeq(vec, index + 2, Len(vec))
    ELSE vec

\* what a stringify call hands back: the string (a sequence of pieces), or
\* null; the visited list as the call leaves it; and the returns made, each
\* with the object, the kind of return, the objects whose calls were under
\* way, and the visited list at the call and at the return
Returned(isNull, str, visited, returns) ==
    [null |-> isNull, str |-> str, visited |-> visited, returns |-> returns]
ReturnOf(o, kind, active, before, after) ==
    [o |-> o, kind |-> kind, active |-> active, before |-> before, after |-> after]

\* stringify(o, visited) and its three loops; loop is "vector",
\* "dictionary" or "fields", i the loop index from 0, j the string so far
RECURSIVE stringify(_, _, _, _)
RECURSIVE stringifyLoop(_, _, _, _, _, _, _, _)
stringifyLoop(h, vals, loop, i, j, visited, active, returns) ==
    IF ~(i < Len(vals)) THEN Returned(FALSE, j, visited, returns)
    ELSE LET r == stringify(h, vals[i + 1], visited, active) IN
         IF r.null
         THEN stringifyLoop(h, vals, loop, i + 1, j, r.visited, active,
                            returns \o r.returns)
         ELSE LET j1 == IF loop = "vector" THEN j \o r.str
                        ELSE j \o <<"name: ">> \o r.str
                  j2 == IF loop = "dictionary" THEN j1 \o <<", ">>
                        ELSE IF i < Len(vals) - 1 THEN j1 \o <<", ">> ELSE j1
              IN stringifyLoop(h, vals, loop, i + 1, j2, r.visited, active,
                               returns \o r.returns)

stringify(h, o, visited, active) ==
    IF o = NULL
    THEN Returned(FALSE, <<"null">>, visited, <<>>)
    ELSE IF o = Prim
    THEN Returned(FALSE, <<"value">>, visited, <<>>)
    ELSE
    LET type == h[o].type
        vec == type.name = "system.Vector"
    IN IF vectorIndexOf(visited, o) # 0 - 1
       THEN Returned(TRUE, <<>>, visited,
                     <<ReturnOf(o, "recursive", active, visited, visited)>>)
       ELSE
       LET index == Len(visited)
           pushed == Append(visited, o)
       IN IF vec
          THEN LET r == stringifyLoop(h, h[o].values, "vector", 0, <<"[ ">>, pushed,
                                      active \cup {o}, <<>>)
                   left == splice(r.visited, index)
               IN Returned(FALSE, r.str \o <<" ]">>, left,
                           Append(r.returns,
                                  ReturnOf(o, "normal", active, visited, left)))
          ELSE IF type.name = "system.Dictionary"
          THEN IF ~type.stringKeys
               THEN Returned(TRUE, <<>>, pushed,
                             <<ReturnOf(o, "unsupported", active, visited, pushed)>>)
               ELSE LET r == stringifyLoop(h, h[o].values, "dictionary", 0, <<"{ ">>,
                                           pushed, active \cup {o}, <<>>)
                        left == splice(r.visited, index)
                    IN Returned(FALSE,
                                SubSeq(r.str, 1, Len(r.str) - 1) \o <<" }">>, left,
                                Append(r.returns,
                                       ReturnOf(o, "normal", active, visited, left)))
          ELSE LET r == stringifyLoop(h, h[o].values, "fields", 0, <<"{ ">>, pushed,
                                      active \cup {o}, <<>>)
                   left == splice(r.visited, index)
               IN Returned(FALSE, r.str \o <<" }">>, left,
                           Append(r.returns,
                                  ReturnOf(o, "normal", active, visited, left)))

\* JSON.stringify(o): visited is left out and a new Vector is made
Stringify(o) ==
    /\ ScriptCall("stringify")
    /\ jsonArg' = o
    /\ jsonOut' = stringify(heap, o, <<>>, {})
    /\ UNCHANGED <<heap, editorVars>>

InitJson ==
    /\ LifeIdle
    /\ LoadIdle
    /\ CodecIdle
    /\ TraceIdle
    /\ PathIdle
    /\ MarkIdle
    /\ AllocIdle
    /\ ThreadIdle
    /\ EditorIdle
    /\ heap \in Heaps
    /\ jsonArg = NULL
    /\ jsonOut = <<>>

NextJson == \E o \in Obj : Stringify(o)

SpecJson == InitJson /\ [][NextJson]_vars

-----------------------------------------------------------------------------
(* Properties of the traversal (SpecJson) *)

\* C39: every return of a nested stringify call (normal, recursive
\* reference, unsupported Dictionary) leaves the visited list as it was at
\* the call, the list holds the objects of the calls under way and nothing
\* else, and a recursive reference is reported only for an object whose own
\* call is under way, never for one merely reachable twice.
C39_VisitedIsPath ==
    jsonArg # NULL =>
       \A k \in DOMAIN jsonOut.returns :
          LET ret == jsonOut.returns[k] IN
          /\ ret.active # {} =>
                /\ ret.after = ret.before
                /\ Range(ret.before) = ret.active
          /\ ret.kind = "recursive" => ret.o \in ret.active

-----------------------------------------------------------------------------
(* Path resolution: getPathFromName *)

\* length of the assembly names
MaxName == 6

\* the characters of the names
Char == {"a", ".", "l", "o", "m"}
Names == SeqsUpTo(Char, MaxName)

\* "./bin/" and ".loom"
BinDir  == <<".", "/", "b", "i", "n", "/">>
LoomExt == <<".", "l", "o", "o", "m">>

\* strstr(haystack, needle) != NULL
strstr(haystack, needle) ==
    \E i \in 0..(Len(haystack) - Len(needle)) :
       SubSeq(haystack, i + 1, i + Len(needle)) = needle

\* if (!strstr(filePath.c_str(), ".loom"))
lacksExtension(path) == ~strstr(path, LoomExt)

getPathFromName(name, abs) ==
    LET path == (IF ~abs THEN BinDir ELSE <<>>) \o name IN
    IF lacksExtension(path) THEN path \o LoomExt ELSE path

\* openExecutableAssembly and closeExecutableAssembly resolve the path of
\* the assembly name they are given
GetPathFromName ==
    /\ filePath = <<"?">>
    /\ Call("getPathFromName", 1)
    /\ proc' = proc
    /\ filePath' = getPathFromName(assemblyName, absPath)
    /\ UNCHANGED <<assemblyName, absPath>>
    /\ UNCHANGED <<L, toLuaState, lastState, lastLSState, assemblies, nextAssembly,
                   deleteCount, closeCount, everClosed>>
    /\ UNCHANGED <<loadVars, codecVars, traceVars, markVars, allocVars, threadVars, scriptVars>>

InitPath ==
    /\ LifeIdle
    /\ LoadIdle
    /\ CodecIdle
    /\ TraceIdle
    /\ assemblyName \in Names
    /\ absPath \in BOOLEAN
    /\ filePath = <<"?">>
    /\ OthersIdle

NextPath == GetPathFromName

SpecPath == InitPath /\ [][NextPath]_vars

-----------------------------------------------------------------------------
(* Properties of the path resolution (SpecPath) *)

StartsWith(s, prefix) == Len(s) >= Len(prefix) /\ SubSeq(s, 1, Len(prefix)) = prefix
EndsWith(s, suffix) ==
    Len(s) >= Len(suffix) /\ SubSeq(s, Len(s) - Len(suffix) + 1, Len(s)) = suffix

\* C18: the path starts with "./bin/" exactly when absPath is false, ".loom"
\* is appended exactly when the name does not end with it, and so the path
\* ends with ".loom" and not with ".loom.loom".
C18_ExtensionOnce ==
    filePath # <<"?">> =>
       /\ StartsWith(filePath, BinDir) <=> ~absPath
       /\ filePath = (IF absPath THEN <<>> ELSE BinDir) \o assemblyName
                     \o (IF EndsWith(assemblyName, LoomExt) THEN <<>> ELSE LoomExt)
       /\ EndsWith(filePath, LoomExt)
       /\ ~EndsWith(filePath, LoomExt \o LoomExt)

=============================================================================
